---------------------------- MODULE Spec2Model ----------------------------
(*************************************************************************)
(* Model of the x402r refund extension.                                  *)
(*                                                                       *)
(*   Spec       one run of settleWithRefundHelper against a chain signer *)
(*              whose answers and failures are nondeterministic          *)
(*   SpecRetry  readContractWithRetry for every maxRetries and every     *)
(*              pattern of failures of the wrapped read                  *)
(*   SpecRoute  refundable() / withRefund() on one route configuration   *)
(*************************************************************************)
EXTENDS Integers, Sequences, FiniteSets, TLC

VARIABLES
    inp,        \* settle: paymentPayload and paymentRequirements (never written)
    pc,         \* position in the running function
    loc,        \* settle: local variables of settleWithRefundHelper
    env,        \* settle: what the chain has answered so far in this run
    attempt,    \* loop variable `attempt` of the retry loop being executed
    delays,     \* milliseconds slept so far, per kind of timer
    writes,     \* settle: functionName of every writeContract submitted, in order
    faults,     \* chain calls that failed so far in this run
    out,        \* settle: how the run ended
    rr,         \* readContractWithRetry on its own: its parameter and counters
    route,      \* withRefund on its own: the route configuration and the result
    fac,        \* example facilitator: its /settle requests and its result cache
    cls         \* error classification on its own: the failure and the error raised

vars == <<inp, pc, loc, env, attempt, delays, writes, faults, out, rr, route, fac, cls>>

-----------------------------------------------------------------------------
(* Bounds of the model *)

\* failed chain calls (thrown errors) one settle run may meet
MaxFaults == 6
\* distinct call sites of one settle run at which the signer may fail
MaxFaultSites == 1
\* largest maxRetries argument tried for readContractWithRetry on its own
MaxRetriesArg == 7
\* most payment options in the accepts array of a route
MaxOptions == 2
\* most calls of computeRelayAddress on its own
MaxCalls == 2
\* most blocks the chain advances while computeRelayAddress is called
MaxBlock == 1
\* most /settle requests the example facilitator receives
MaxRequests == 2

-----------------------------------------------------------------------------
(* Addresses.  An address string is its 20-byte value (id) and the way its  *)
(* hex digits are written (form): EIP-55 checksummed, all lowercase, or     *)
(* some other mix of cases; "invalid" is a string that is no address.       *)

ZeroId == <<"zero">>

Forms == {"checksum", "lower", "mixed"}

\* the zero address has no letters: every way of writing it is the same string
Addr(id, form) == [id |-> id, form |-> IF id = ZeroId THEN "checksum" ELSE form]

zeroAddress == Addr(ZeroId, "checksum")

Invalid == [id |-> <<"invalid">>, form |-> "invalid"]

\* viem isAddress(a, {strict: false}): 0x and 40 hex digits
IsHexAddress(a) == a.form \in Forms

\* viem isAddress(a): as above, and all lowercase or a correct checksum
IsAddress(a) == a.form \in {"checksum", "lower"}

\* viem getAddress(a) for a hex address: the checksummed writing (throws otherwise)
GetAddress(a) == Addr(a.id, "checksum")

\* String.prototype.toLowerCase on an address string
ToLowerCase(a) == IF IsHexAddress(a) THEN Addr(a.id, "lower") ELSE a


Undefined == [id |-> <<"undefined">>, form |-> "invalid"]

\* obj[key] of a JavaScript object whose keys are address strings
Lookup(map, key) == IF key \in DOMAIN map THEN map[key] ELSE Undefined

\* JavaScript truthiness of a string-or-undefined value
Truthy(a) == a # Undefined

-----------------------------------------------------------------------------
(* Errors thrown by the signer: a chain of causes, outermost first; each    *)
(* layer has an HTTP status, a message and details.                         *)

ErrorLayers ==
    { [status |-> 500, message |-> "boom",                details |-> ""],
      [status |-> 429, message |-> "boom",                details |-> ""],
      [status |-> 500, message |-> "Rate Limit exceeded", details |-> ""],
      [status |-> 500, message |-> "",                    details |-> "rate limit"],
      [status |-> 500, message |-> "boom",                details |-> "rate limit"] }

ChainErrors == { <<l>> : l \in ErrorLayers } \cup
               { <<l1, l2>> : l1 \in {[status |-> 500, message |-> "boom", details |-> ""]},
                              l2 \in ErrorLayers }

\* message.toLowerCase().includes("rate limit")
MentionsRateLimit(m) == m \in {"rate limit", "Rate Limit exceeded"}

\* every error taken for a rate-limit error
LayerIsRateLimitAlways(l) == TRUE

LayerIsRateLimit(l) ==
    \/ l.status = 429
    \/ LET message == IF l.message # "" THEN l.message ELSE l.details
       IN  MentionsRateLimit(message)

RECURSIVE isRateLimitError(_)
isRateLimitError(e) ==
    IF e = <<>> THEN FALSE
    ELSE LayerIsRateLimit(Head(e)) \/ isRateLimitError(Tail(e))

\* an error whose outermost layer carries HTTP status 429
Is429Shaped(e) == e # <<>> /\ Head(e).status = 429

-----------------------------------------------------------------------------
(* readContractWithRetry: the retry policy *)

DefaultMaxRetries == 5

BaseDelayMs == 1000

MaxDelayMs == 16000

RECURSIVE Pow2(_)
Pow2(n) == IF n = 0 THEN 1 ELSE 2 * Pow2(n - 1)

Min(a, b) == IF a < b THEN a ELSE b

\* the backoff with the exponent off by one: 2s, 4s, ...
BackoffDelayFromTwo(a) == Min(BaseDelayMs * Pow2(a + 1), MaxDelayMs)

\* delayMs of the backoff after failed attempt a
BackoffDelay(a) == Min(BaseDelayMs * Pow2(a), MaxDelayMs)

\* the catch block with the last-attempt test off by one
RetryDecisionOffByOne(e, a, maxRetries) ==
    IF ~isRateLimitError(e) THEN "throw"
    ELSE IF a > maxRetries THEN "throwLast"
    ELSE "retry"

\* what the catch block does with error e of attempt a
RetryDecision(e, a, maxRetries) ==
    IF ~isRateLimitError(e) THEN "throw"
    ELSE IF a >= maxRetries THEN "throwLast"
    ELSE "retry"

-----------------------------------------------------------------------------
(* settleWithRefundHelper: inputs *)

FactoryId == <<"factory">>
ProxyId == <<"proxy">>
MerchantId == <<"merchant">>
OtherId == <<"other">>
TokenId == <<"token">>
PayerId == <<"payer">>
EscrowId == <<"escrow">>
OtherEscrowId == <<"escrow2">>

\* extension.info.merchantPayouts values tried: proxy address -> merchantPayout
PayoutMaps ==
    LET P(f) == Addr(ProxyId, f)
        M == Addr(MerchantId, "checksum")
    IN  { <<>>,
          [k \in {P("checksum")} |-> M],
          [k \in {P("lower")} |-> M],
          [k \in {P("mixed")} |-> M],
          [k \in {P("lower")} |-> zeroAddress],
          [k \in {P("checksum"), P("lower")} |->
              IF k = P("checksum") THEN zeroAddress ELSE M],
          [k \in {Addr(OtherId, "lower")} |-> M] }

\* paymentPayload.extensions: where the chain extensions?.refund.info stops
ExtensionShapes == {"noExtensions", "noRefundKey", "noInfo", "info"}

\* info.factoryAddress: missing, no address, wrong checksum, well formed
FactoryAddresses == {Undefined, Invalid, Addr(FactoryId, "mixed"), Addr(FactoryId, "checksum")}

\* payload.signature: ERC-6492 wrapped or not, and the byte length of the inner signature
Signatures == [wrapped : BOOLEAN, bytes : {64, 65}]

\* paymentPayload.payload: authorization and signature, either may be missing
Payloads ==
    { [hasAuth |-> FALSE, hasSig |-> TRUE, to |-> Undefined,
       signature |-> [wrapped |-> FALSE, bytes |-> 65]],
      [hasAuth |-> TRUE, hasSig |-> FALSE, to |-> Addr(OtherId, "checksum"),
       signature |-> [wrapped |-> FALSE, bytes |-> 65]] }
    \cup
    [hasAuth : {TRUE}, hasSig : {TRUE},
     to : {Addr(ProxyId, "lower"), Addr(OtherId, "checksum"), Invalid},
     signature : Signatures]

SettleInputs ==
    { i \in [ext : ExtensionShapes,
             factoryAddress : FactoryAddresses,
             merchantPayouts : PayoutMaps,
             payload : Payloads,
             from : {Addr(PayerId, "lower")},
             payTo : {Addr(ProxyId, "checksum"), Addr(ProxyId, "lower"), Invalid},
             asset : {Addr(TokenId, "lower")},
             network : {"eip155:84532"}] :
        i.ext # "info" => i.factoryAddress = Undefined }

\* extractRefundInfo(paymentPayload, _): null or {factoryAddress, merchantPayouts}
\* extractRefundInfo without the isAddress check
extractRefundInfoNoFormatCheck(p) ==
    IF p.ext # "info" \/ ~Truthy(p.factoryAddress) THEN [isNull |-> TRUE]
    ELSE [isNull |-> FALSE, factoryAddress |-> p.factoryAddress,
          merchantPayouts |-> p.merchantPayouts]

extractRefundInfo(p) ==
    IF p.ext # "info" \/ ~Truthy(p.factoryAddress) THEN [isNull |-> TRUE]
    ELSE IF ~IsAddress(p.factoryAddress) THEN [isNull |-> TRUE]
    ELSE [isNull |-> FALSE, factoryAddress |-> p.factoryAddress,
          merchantPayouts |-> p.merchantPayouts]

-----------------------------------------------------------------------------
(* settleWithRefundHelper: state *)

NoOutcome == [kind |-> "none", err |-> "", wrap |-> "", tx |-> 0, detail |-> <<>>,
              network |-> "", payer |-> Undefined]

\* return null
NullResult == [NoOutcome EXCEPT !.kind = "null"]

\* throw new Error(...): err is the condition found, wrap the catch block that rethrew it
Fatal(err, wrap) == [NoOutcome EXCEPT !.kind = "fatal", !.err = err, !.wrap = wrap]

\* the response carrying the hash of the deployment transaction
SuccessResponseDeployTx(tx) ==
    [NoOutcome EXCEPT !.kind = "success", !.tx = loc.deployTx,
                      !.network = inp.network, !.payer = inp.from]

\* { success: true, transaction: txHash, network, payer }
SuccessResponse(tx) ==
    [NoOutcome EXCEPT !.kind = "success", !.tx = tx,
                      !.network = inp.network, !.payer = inp.from]

InitLoc == [proxyAddress |-> Undefined, relayExists |-> FALSE,
            merchantPayout |-> Undefined, escrowAddress |-> Undefined,
            expectedAddress |-> Undefined, authTo |-> Undefined,
            proxyToken |-> Undefined, proxyEscrow |-> Undefined,
            i |-> 0, deployTx |-> 0, depositTx |-> 0, attempt |-> 0]

InitEnv == [factoryCode |-> "unread", relayCode |-> "unread",
            deployReceipt |-> "unread", deployedCode |-> "unread",
            registered |-> "unread", nonceUsed |-> "unread", reverted |-> 0,
            factoryRelay |-> Undefined, revertCause |-> "none"]

InitFaults == [n |-> 0, only429 |-> TRUE, sites |-> {}, exhausted |-> {}]

InitDelays == [read |-> 0, poll |-> 0, deposit |-> 0]

InitRR == [maxRetries |-> 0, attempt |-> 0, calls |-> 0, delay |-> 0,
           result |-> "idle", lastError |-> <<>>, thrown |-> <<>>]

InitRoute == [phase |-> "idle"]

InitFac == [phase |-> "idle"]

InitCls == [phase |-> "idle"]

\* the signer may still fail the call at the current call site
CanFault ==
    /\ faults.n < MaxFaults
    /\ Cardinality(faults.sites \cup {pc}) <= MaxFaultSites

\* the call sites that go through readContractWithRetry
ReadSites == {"readMerchantPayout", "readEscrow", "readRelayAddress",
              "readRelayAddressAgain", "readEscrowDeployed", "readRegistered",
              "readToken", "readEscrowAgain", "readAuthorizationState"}

\* the record of failed calls after call site `site` threw e; a read is
\* exhausted when its last attempt was still rate-limited
NoteFault(site, e) ==
    [n |-> faults.n + 1,
     only429 |-> faults.only429 /\ Is429Shaped(e),
     sites |-> faults.sites \cup {site},
     exhausted |-> IF /\ site \in ReadSites
                      /\ RetryDecision(e, attempt, DefaultMaxRetries) = "throwLast"
                   THEN faults.exhausted \cup {site}
                   ELSE faults.exhausted]

Init ==
    /\ inp \in SettleInputs
    /\ pc = "extract"
    /\ loc = InitLoc
    /\ env = InitEnv
    /\ attempt = 0
    /\ delays = InitDelays
    /\ writes = <<>>
    /\ faults = InitFaults
    /\ out = NoOutcome
    /\ rr = InitRR
    /\ route = InitRoute
    /\ fac = InitFac
    /\ cls = InitCls

\* variables the settle run never touches
Frame == UNCHANGED <<inp, rr, route, fac, cls>>

\* return / throw: the run ends
Finish(o) == pc' = "done" /\ out' = o

-----------------------------------------------------------------------------
(* settleWithRefundHelper: the steps.  Every await is one step; the code    *)
(* that runs until the next await belongs to the step.                      *)

\* readContractWithRetry, catch block: a rate-limited attempt that is retried
ReadBackoff ==
    /\ pc \in ReadSites
    /\ attempt <= DefaultMaxRetries
    /\ CanFault
    /\ \E e \in ChainErrors :
        /\ RetryDecision(e, attempt, DefaultMaxRetries) = "retry"
        /\ faults' = NoteFault(pc, e)
    /\ delays' = [delays EXCEPT !.read = @ + BackoffDelay(attempt)]
    /\ attempt' = attempt + 1
    /\ UNCHANGED <<pc, loc, env, writes, out>>
    /\ Frame

\* readContractWithRetry throws: the loop ran out, or the catch block rethrew
ReadThrows ==
    \/ attempt > DefaultMaxRetries /\ faults' = faults
    \/ /\ attempt <= DefaultMaxRetries
       /\ CanFault
       /\ \E e \in ChainErrors :
           /\ RetryDecision(e, attempt, DefaultMaxRetries) # "retry"
           /\ faults' = NoteFault(pc, e)

\* readContractWithRetry returns a value
ReadReturns == attempt <= DefaultMaxRetries /\ faults' = faults

\* a call made without the retry wrapper throws
CallThrows ==
    /\ CanFault
    /\ \E e \in ChainErrors : faults' = NoteFault(pc, e)

\* lines 728-732
ExtractExtensionFor(input) ==
    /\ pc = "extract"
    /\ IF extractRefundInfo(input).isNull
       THEN Finish(NullResult)
       ELSE pc' = "factoryCode" /\ out' = out
    /\ UNCHANGED <<loc, env, attempt, delays, writes, faults>>
    /\ Frame

ExtractExtension == ExtractExtensionFor(inp)

\* lines 737-749: signer.getCode(factory)
FactoryGetCode ==
    /\ pc = "factoryCode"
    /\ \/ /\ env' = [env EXCEPT !.factoryCode = "code"]
          /\ pc' = "relayCode" /\ out' = out
          /\ faults' = faults
       \/ /\ env' = [env EXCEPT !.factoryCode = "empty"]
          /\ Finish(Fatal("InvalidFactory", "FactoryCheck"))
          /\ faults' = faults
       \/ /\ CallThrows
          /\ Finish(Fatal("RpcError", "FactoryCheck"))
          /\ env' = env
    /\ UNCHANGED <<loc, attempt, delays, writes>>
    /\ Frame

\* every answer of getCode taken for deployed code
HasCodeAlways(code) == TRUE

\* no answer of getCode taken for deployed code
HasCodeNever(code) == FALSE

\* line 756: relayCode && relayCode !== "0x" && relayCode.length > 2
HasCode(code) == code = "code"

\* lines 751-756: proxyAddress = getAddress(payTo); signer.getCode(proxyAddress)
RelayGetCodeFor(input) ==
    /\ pc = "relayCode"
    /\ IF ~IsHexAddress(input.payTo)
       THEN /\ Finish(Fatal("InvalidAddress", "none"))
            /\ UNCHANGED <<loc, env, faults>>
       ELSE \/ \E code \in {"code", "empty"} :
                /\ env' = [env EXCEPT !.relayCode = code]
                /\ loc' = [loc EXCEPT !.proxyAddress = GetAddress(input.payTo),
                                      !.relayExists = HasCode(code)]
                /\ pc' = IF HasCode(code) THEN "readMerchantPayout" ELSE "lookupPayout"
                /\ out' = out
                /\ faults' = faults
            \/ /\ CallThrows
               /\ Finish(Fatal("RpcError", "none"))
               /\ UNCHANGED <<loc, env>>
    /\ UNCHANGED <<attempt, delays, writes>>
    /\ Frame

RelayGetCode == RelayGetCodeFor(inp)

\* the addresses factory.getRelayAddress(merchant) may hold for a merchant
FactoryRelays == {Addr(ProxyId, "checksum"), Addr(OtherId, "checksum")}

\* lines 762-781 (first read): proxy.MERCHANT_PAYOUT().  The contract at payTo
\* answers; env.factoryRelay is the address the factory holds for the merchant
\* it names, which this branch never reads
ReadMerchantPayout ==
    /\ pc = "readMerchantPayout"
    /\ \/ /\ ReadReturns
          /\ \/ /\ loc' = [loc EXCEPT !.merchantPayout = zeroAddress]
                /\ env' = env
             \/ /\ loc' = [loc EXCEPT !.merchantPayout = Addr(MerchantId, "checksum")]
                /\ \E relay \in FactoryRelays :
                        env' = [env EXCEPT !.factoryRelay = relay]
          /\ pc' = "readEscrow" /\ out' = out
       \/ /\ ReadThrows
          /\ Finish(NullResult)
          /\ loc' = loc /\ env' = env
    /\ attempt' = 0
    /\ UNCHANGED <<delays, writes>>
    /\ Frame

\* lines 772-801 (second read): proxy.ESCROW(), then the zero-address check
ReadEscrow ==
    /\ pc = "readEscrow"
    /\ \/ /\ ReadReturns
          /\ loc' = [loc EXCEPT !.escrowAddress = Addr(EscrowId, "checksum")]
          /\ IF ~Truthy(loc.merchantPayout) \/ loc.merchantPayout = zeroAddress
             THEN Finish(NullResult)
             ELSE pc' = "readRegistered" /\ out' = out
       \/ /\ ReadThrows
          /\ Finish(NullResult)
          /\ loc' = loc
    /\ attempt' = 0
    /\ UNCHANGED <<env, delays, writes>>
    /\ Frame

\* merchantPayouts[proxyAddress] || merchantPayouts[proxyAddressLower]
\* the lookup without the lowercase fallback
LookupPayoutExactOnly(map, proxyAddress) == Lookup(map, proxyAddress)

LookupPayout(map, proxyAddress) ==
    IF Truthy(Lookup(map, proxyAddress))
    THEN Lookup(map, proxyAddress)
    ELSE Lookup(map, ToLowerCase(proxyAddress))

\* the test without the zero address
PayoutMissingIgnoresZero(merchantPayout) == ~Truthy(merchantPayout)

\* line 791: !merchantPayout || merchantPayout === zeroAddress
PayoutMissing(merchantPayout) == ~Truthy(merchantPayout) \/ merchantPayout = zeroAddress

\* lines 782-801: relay not deployed, merchantPayout comes from the extension
LookupMerchantPayoutFor(input) ==
    /\ pc = "lookupPayout"
    /\ LET m == LookupPayout(extractRefundInfo(input).merchantPayouts, loc.proxyAddress)
       IN  IF PayoutMissing(m)
           THEN Finish(NullResult) /\ loc' = loc
           ELSE /\ loc' = [loc EXCEPT !.merchantPayout = m]
                /\ pc' = "readRelayAddress" /\ out' = out
    /\ UNCHANGED <<env, attempt, delays, writes, faults>>
    /\ Frame

LookupMerchantPayout == LookupMerchantPayoutFor(inp)


\* the comparison with the factory's address left out
AddressMismatchNever(expected, proxyAddress) == FALSE

\* only an unset answer of the factory taken for a mismatch
AddressMismatchOnlyZero(expected, proxyAddress) == expected = zeroAddress

\* expectedAddress.toLowerCase() !== proxyAddress.toLowerCase()
AddressMismatch(expected, proxyAddress) == ToLowerCase(expected) # ToLowerCase(proxyAddress)

\* lines 805-820: factory.getRelayAddress(merchantPayout) and the comparison
ReadRelayAddress ==
    /\ pc = "readRelayAddress"
    /\ \/ /\ ReadReturns
          /\ \E expected \in FactoryRelays :
                /\ loc' = [loc EXCEPT !.expectedAddress = expected]
                /\ env' = [env EXCEPT !.factoryRelay = expected]
                /\ IF AddressMismatch(expected, loc.proxyAddress)
                   THEN Finish(Fatal("AddressMismatch", "DeployRelay"))
                   ELSE pc' = "writeDeploy" /\ out' = out
       \/ /\ ReadThrows
          /\ Finish(Fatal("RpcError", "DeployRelay"))
          /\ loc' = loc /\ env' = env
    /\ attempt' = 0
    /\ UNCHANGED <<delays, writes>>
    /\ Frame

\* lines 822-828: signer.writeContract(factory.deployRelay(merchantPayout))
WriteDeployRelay ==
    /\ pc = "writeDeploy"
    /\ writes' = Append(writes, "deployRelay")
    /\ \/ /\ loc' = [loc EXCEPT !.deployTx = Len(writes) + 1]
          /\ pc' = "deployReceipt" /\ out' = out
          /\ faults' = faults
       \/ /\ CallThrows
          /\ Finish(Fatal("RpcError", "DeployRelay"))
          /\ loc' = loc
    /\ UNCHANGED <<env, attempt, delays>>
    /\ Frame

\* lines 830-836: signer.waitForTransactionReceipt(txHash) and the status check.
\* A deployment reverts because a concurrent settlement has deployed the relay
\* since the existence check, or for another reason; the receipt shows only
\* that it reverted
WaitDeployReceipt ==
    /\ pc = "deployReceipt"
    /\ \/ /\ env' = [env EXCEPT !.deployReceipt = "success"]
          /\ pc' = "pollCode" /\ out' = out
          /\ faults' = faults
       \/ /\ \E cause \in {"alreadyDeployed", "other"} :
                env' = [env EXCEPT !.deployReceipt = "reverted", !.revertCause = cause]
          /\ Finish(Fatal("DeploymentReverted", "DeployRelay"))
          /\ faults' = faults
       \/ /\ CallThrows
          /\ Finish(Fatal("RpcError", "DeployRelay"))
          /\ env' = env
    /\ UNCHANGED <<loc, attempt, delays, writes>>
    /\ Frame

PollAttempts == 5

\* the same wait before every later probe
PollDelayFlat(i) == IF i > 0 THEN 1000 ELSE 0

\* const delay = 1000 * i
PollDelay(i) == IF i > 0 THEN 1000 * i ELSE 0

\* lines 840-850: one iteration of the polling loop, signer.getCode(proxyAddress)
PollCode ==
    /\ pc = "pollCode"
    /\ delays' = [delays EXCEPT !.poll = @ + PollDelay(loc.i)]
    /\ \/ /\ env' = [env EXCEPT !.deployedCode = "code"]
          /\ pc' = "readEscrowDeployed" /\ out' = out
          /\ loc' = loc
          /\ faults' = faults
       \/ /\ env' = [env EXCEPT !.deployedCode = "empty"]
          /\ loc' = [loc EXCEPT !.i = @ + 1]
          /\ pc' = IF loc.i + 1 < PollAttempts THEN "pollCode" ELSE "readRelayAddressAgain"
          /\ out' = out
          /\ faults' = faults
       \/ /\ CallThrows
          /\ Finish(Fatal("RpcError", "DeployRelay"))
          /\ UNCHANGED <<loc, env>>
    /\ UNCHANGED <<attempt, writes>>
    /\ Frame

\* lines 864-869: the message names proxyAddress, txHash and actualAddress
NotObservedError(proxyAddress, txHash, actualAddress) ==
    [Fatal("DeploymentNotObserved", "DeployRelay")
        EXCEPT !.detail = <<proxyAddress, txHash, actualAddress>>]

\* lines 855-870: code still absent, factory.getRelayAddress again, then throw
ReadRelayAddressAgain ==
    /\ pc = "readRelayAddressAgain"
    /\ \/ /\ ReadReturns
          /\ \E actualAddress \in FactoryRelays :
                Finish(NotObservedError(loc.proxyAddress, loc.deployTx, actualAddress))
       \/ /\ ReadThrows
          /\ Finish(Fatal("RpcError", "DeployRelay"))
    /\ attempt' = 0
    /\ UNCHANGED <<loc, env, delays, writes>>
    /\ Frame

\* lines 872-878: proxy.ESCROW() of the newly deployed proxy
ReadEscrowDeployed ==
    /\ pc = "readEscrowDeployed"
    /\ \/ /\ ReadReturns
          /\ loc' = [loc EXCEPT !.escrowAddress = Addr(EscrowId, "checksum")]
          /\ pc' = "readRegistered" /\ out' = out
       \/ /\ ReadThrows
          /\ Finish(Fatal("RpcError", "DeployRelay"))
          /\ loc' = loc
    /\ attempt' = 0
    /\ UNCHANGED <<env, delays, writes>>
    /\ Frame

\* lines 906-930: escrow.registeredMerchants(merchantPayout)
ReadRegistered ==
    /\ pc = "readRegistered"
    /\ IF ~Truthy(loc.escrowAddress)
       THEN /\ Finish(Fatal("InternalError", "none"))
            /\ UNCHANGED <<env, faults>>
       ELSE \/ /\ ReadReturns
               /\ \/ /\ env' = [env EXCEPT !.registered = "yes"]
                     /\ pc' = "checkBinding" /\ out' = out
                  \/ /\ env' = [env EXCEPT !.registered = "no"]
                     /\ Finish(Fatal("MerchantNotRegistered", "none"))
            \/ /\ ReadThrows
               /\ Finish(Fatal("RpcError", "RegistrationCheck"))
               /\ env' = env
    /\ attempt' = 0
    /\ UNCHANGED <<loc, delays, writes>>
    /\ Frame

\* the binding check left out
BindingHoldsAlways(to, proxyAddress) == TRUE

\* authTo === proxyAddress, with authTo = getAddress(authorization.to)
BindingHolds(to, proxyAddress) == GetAddress(to) = proxyAddress

\* lines 932-960: payload shape, then the authorization binding
VerifyAuthorizationBindingFor(input) ==
    /\ pc = "checkBinding"
    /\ IF ~input.payload.hasAuth \/ ~input.payload.hasSig
       THEN Finish(NullResult) /\ loc' = loc
       ELSE IF ~IsHexAddress(input.payload.to)
       THEN Finish(Fatal("InvalidAddress", "none")) /\ loc' = loc
       ELSE /\ loc' = [loc EXCEPT !.authTo = GetAddress(input.payload.to)]
            /\ IF ~BindingHolds(input.payload.to, loc.proxyAddress)
               THEN Finish(Fatal("AuthorizationBindingMismatch", "none"))
               ELSE pc' = "readToken" /\ out' = out
    /\ UNCHANGED <<env, attempt, delays, writes, faults>>
    /\ Frame

VerifyAuthorizationBinding == VerifyAuthorizationBindingFor(inp)


\* the token comparison left out
TokenMismatchNever(proxyToken, asset) == FALSE

\* proxyTokenNormalized !== paymentAssetNormalized
TokenMismatch(proxyToken, asset) == GetAddress(proxyToken) # GetAddress(asset)

\* lines 962-984: proxy.TOKEN() against paymentRequirements.asset
ReadTokenFor(input) ==
    /\ pc = "readToken"
    /\ \/ /\ ReadReturns
          /\ \E proxyToken \in {Addr(TokenId, "checksum"), Addr(OtherId, "checksum")} :
                /\ loc' = [loc EXCEPT !.proxyToken = proxyToken]
                /\ IF TokenMismatch(proxyToken, input.asset)
                   THEN Finish(Fatal("TokenMismatch", "ProxyImmutables"))
                   ELSE pc' = "readEscrowAgain" /\ out' = out
       \/ /\ ReadThrows
          /\ Finish(Fatal("RpcError", "ProxyImmutables"))
          /\ loc' = loc
    /\ attempt' = 0
    /\ UNCHANGED <<env, delays, writes>>
    /\ Frame

ReadToken == ReadTokenFor(inp)

\* the escrow comparison left out
EscrowMismatchNever(proxyEscrow, escrowAddress) == FALSE

\* proxyEscrow.toLowerCase() !== escrowAddress.toLowerCase()
EscrowMismatch(proxyEscrow, escrowAddress) ==
    ToLowerCase(proxyEscrow) # ToLowerCase(escrowAddress)

\* lines 986-1004: proxy.ESCROW() against the escrow read during relay resolution
ReadEscrowAgain ==
    /\ pc = "readEscrowAgain"
    /\ \/ /\ ReadReturns
          /\ \E proxyEscrow \in {Addr(EscrowId, "lower"), Addr(OtherEscrowId, "checksum")} :
                /\ loc' = [loc EXCEPT !.proxyEscrow = proxyEscrow]
                /\ IF EscrowMismatch(proxyEscrow, loc.escrowAddress)
                   THEN Finish(Fatal("EscrowMismatch", "ProxyImmutables"))
                   ELSE pc' = "decodeSignature" /\ out' = out
       \/ /\ ReadThrows
          /\ Finish(Fatal("RpcError", "ProxyImmutables"))
          /\ loc' = loc
    /\ attempt' = 0
    /\ UNCHANGED <<env, delays, writes>>
    /\ Frame

\* parseErc6492Signature(signature).signature: the inner signature
ParsedSignature(sig) == [wrapped |-> FALSE, bytes |-> sig.bytes]

\* every signature taken for an ECDSA signature
isECDSAAlways(parsed) == TRUE

\* signatureLength === 130 (hex digits)
isECDSA(parsed) == 2 * parsed.bytes = 130

\* lines 1006-1031: unwrap and measure the signature
DecodeSignatureFor(input) ==
    /\ pc = "decodeSignature"
    /\ IF ~isECDSA(ParsedSignature(input.payload.signature))
       THEN Finish(NullResult)
       ELSE pc' = "readAuthorizationState" /\ out' = out
    /\ UNCHANGED <<loc, env, attempt, delays, writes, faults>>
    /\ Frame

DecodeSignature == DecodeSignatureFor(inp)

\* lines 1033-1064: token.authorizationState(from, nonce); the catch block swallows
\* every error thrown in the try block, the "already used" error included
ReadAuthorizationState ==
    /\ pc = "readAuthorizationState"
    /\ \/ /\ ReadReturns
          /\ \E used \in {"used", "unused"} : env' = [env EXCEPT !.nonceUsed = used]
       \/ /\ ReadThrows
          /\ env' = [env EXCEPT !.nonceUsed = "failed"]
    /\ pc' = "writeDeposit"
    /\ attempt' = 0
    /\ UNCHANGED <<loc, delays, writes, out>>
    /\ Frame

DepositMaxRetries == 5

\* the delay counted from the attempt number itself
DepositDelayFromZero(a) == a * 1000

\* const delayMs = (attempt + 1) * 1000
DepositDelay(a) == (a + 1) * 1000

\* the catch block without the test of the attempt number and its increment
DepositAttemptFailedRetriesForever ==
    /\ pc' = "writeDeposit"
    /\ delays' = [delays EXCEPT !.deposit = @ + DepositDelay(loc.attempt)]
    /\ loc' = loc

\* lines 1102-1113: the catch block of the executeDeposit loop
DepositAttemptFailed ==
    IF loc.attempt >= DepositMaxRetries
    THEN /\ pc' = "classify"
         /\ delays' = delays
         /\ loc' = loc
    ELSE /\ pc' = "writeDeposit"
         /\ delays' = [delays EXCEPT !.deposit = @ + DepositDelay(loc.attempt)]
         /\ loc' = [loc EXCEPT !.attempt = @ + 1]

\* lines 1070-1086: signer.writeContract(proxy.executeDeposit(...))
WriteExecuteDeposit ==
    /\ pc = "writeDeposit"
    /\ writes' = Append(writes, "executeDeposit")
    /\ \/ /\ loc' = [loc EXCEPT !.depositTx = Len(writes) + 1]
          /\ pc' = "depositReceipt"
          /\ delays' = delays
          /\ faults' = faults
       \/ /\ CallThrows
          /\ DepositAttemptFailed
    /\ UNCHANGED <<env, attempt, out>>
    /\ Frame

\* lines 1088-1101: signer.waitForTransactionReceipt(txHash) and the status check
WaitDepositReceipt ==
    /\ pc = "depositReceipt"
    /\ \/ /\ Finish(SuccessResponse(loc.depositTx))
          /\ UNCHANGED <<loc, env, delays, faults>>
       \/ /\ env' = [env EXCEPT !.reverted = @ + 1]
          /\ DepositAttemptFailed
          /\ out' = out
          /\ faults' = faults
       \/ /\ CallThrows
          /\ DepositAttemptFailed
          /\ UNCHANGED <<env, out>>
    /\ UNCHANGED <<attempt, writes>>
    /\ Frame

\* lines 1116-1187: all retries exhausted, the failure is rethrown with a message
ClassifyFailure ==
    /\ pc = "classify"
    /\ Finish(Fatal("ExecutionReverted", "ExecuteDeposit"))
    /\ UNCHANGED <<loc, env, attempt, delays, writes, faults>>
    /\ Frame

Next ==
    \/ ExtractExtension
    \/ FactoryGetCode
    \/ RelayGetCode
    \/ ReadMerchantPayout
    \/ ReadEscrow
    \/ LookupMerchantPayout
    \/ ReadRelayAddress
    \/ WriteDeployRelay
    \/ WaitDeployReceipt
    \/ PollCode
    \/ ReadRelayAddressAgain
    \/ ReadEscrowDeployed
    \/ ReadRegistered
    \/ VerifyAuthorizationBinding
    \/ ReadToken
    \/ ReadEscrowAgain
    \/ DecodeSignature
    \/ ReadAuthorizationState
    \/ WriteExecuteDeposit
    \/ WaitDepositReceipt
    \/ ClassifyFailure
    \/ ReadBackoff

Spec == Init /\ [][Next]_vars

\* one step of settleWithRefundHelper called with paymentPayload `input`; the
\* steps not listed with an argument do not read the payload or the requirements
NextFor(input) ==
    \/ ExtractExtensionFor(input)
    \/ FactoryGetCode
    \/ RelayGetCodeFor(input)
    \/ ReadMerchantPayout
    \/ ReadEscrow
    \/ LookupMerchantPayoutFor(input)
    \/ ReadRelayAddress
    \/ WriteDeployRelay
    \/ WaitDeployReceipt
    \/ PollCode
    \/ ReadRelayAddressAgain
    \/ ReadEscrowDeployed
    \/ ReadRegistered
    \/ VerifyAuthorizationBindingFor(input)
    \/ ReadTokenFor(input)
    \/ ReadEscrowAgain
    \/ DecodeSignatureFor(input)
    \/ ReadAuthorizationState
    \/ WriteExecuteDeposit
    \/ WaitDepositReceipt
    \/ ClassifyFailure
    \/ ReadBackoff

-----------------------------------------------------------------------------
(* readContractWithRetry on its own, for every maxRetries argument *)

InitRetry ==
    /\ rr \in [maxRetries : 0..MaxRetriesArg, attempt : {0}, calls : {0}, delay : {0},
               result : {"running"}, lastError : {<<>>}, thrown : {<<>>}]
    /\ inp = [ext |-> "none"]
    /\ pc = "retry"
    /\ loc = InitLoc
    /\ env = InitEnv
    /\ attempt = 0
    /\ delays = InitDelays
    /\ writes = <<>>
    /\ faults = InitFaults
    /\ out = NoOutcome
    /\ route = InitRoute
    /\ fac = InitFac
    /\ cls = InitCls

RetryFrame ==
    UNCHANGED <<inp, pc, loc, env, attempt, delays, writes, faults, out, route, fac, cls>>

\* line 463: signer.readContract(args) returns
RetryCallReturns ==
    /\ rr.result = "running"
    /\ rr.attempt <= rr.maxRetries
    /\ rr' = [rr EXCEPT !.calls = @ + 1, !.result = "returned"]
    /\ RetryFrame

\* lines 464-480: signer.readContract(args) throws e
RetryCallThrows ==
    /\ rr.result = "running"
    /\ rr.attempt <= rr.maxRetries
    /\ \E e \in ChainErrors :
        LET d == RetryDecision(e, rr.attempt, rr.maxRetries)
        IN  rr' = CASE d = "retry" ->
                         [rr EXCEPT !.calls = @ + 1, !.lastError = e,
                                    !.delay = @ + BackoffDelay(rr.attempt),
                                    !.attempt = @ + 1]
                    [] d = "throwLast" ->
                         [rr EXCEPT !.calls = @ + 1, !.lastError = e,
                                    !.result = "afterLoop"]
                    [] OTHER ->
                         [rr EXCEPT !.calls = @ + 1, !.lastError = e,
                                    !.result = "thrown", !.thrown = e]
    /\ RetryFrame

\* line 483: after the loop (left by break, or by its condition), throw lastError
RetryThrowLast ==
    /\ \/ rr.result = "afterLoop"
       \/ rr.result = "running" /\ rr.attempt > rr.maxRetries
    /\ rr' = [rr EXCEPT !.result = "thrown", !.thrown = rr.lastError]
    /\ RetryFrame

NextRetry == RetryCallReturns \/ RetryCallThrows \/ RetryThrowLast

SpecRetry == InitRetry /\ [][NextRetry]_vars

-----------------------------------------------------------------------------
(* computeRelayAddress.  A hash is modelled by the tuple of what is hashed:  *)
(* two hashes are equal exactly when their inputs are.                       *)

\* keccak256(encodePacked(["address", "address"], [factory, merchant])): the
\* hash of the 40 bytes; encodePacked throws InvalidAddressError on a string
\* that is not all lowercase or correctly checksummed
Salt(factory, merchant) ==
    IF IsAddress(factory) /\ IsAddress(merchant)
    THEN <<"keccak256", "packed">> \o factory.id \o merchant.id
    ELSE <<"InvalidAddressError">>

\* keccak256(encodeAbiParameters([{ type: "bytes32" }], [salt]))
GuardedSalt(salt) == <<"keccak256", "abi">> \o salt

\* predictCreate3Address(createx, guardedSalt)
predictCreate3Address(createx, guardedSalt) ==
    Addr(<<"create3">> \o createx.id \o guardedSalt, "checksum")

\* getAddress throws InvalidAddressError on one of the three inputs
computeRelayAddressThrows(createxAddress, factoryAddress, merchantPayout) ==
    ~(IsHexAddress(createxAddress) /\ IsHexAddress(factoryAddress)
        /\ IsHexAddress(merchantPayout))

\* the address computed from the three strings as they were passed in
computeRelayAddressNoNormalize(createxAddress, factoryAddress, merchantPayout) ==
    predictCreate3Address(createxAddress, GuardedSalt(Salt(factoryAddress, merchantPayout)))

\* the address computed with the chain's block number mixed into the salt
computeRelayAddressAtBlock(createxAddress, factoryAddress, merchantPayout) ==
    predictCreate3Address(GetAddress(createxAddress),
        GuardedSalt(Salt(GetAddress(factoryAddress), GetAddress(merchantPayout))
                    \o <<ToString(route.block)>>))

computeRelayAddress(createxAddress, factoryAddress, merchantPayout) ==
    LET createx  == GetAddress(createxAddress)
        factory  == GetAddress(factoryAddress)
        merchant == GetAddress(merchantPayout)
    IN  predictCreate3Address(createx, GuardedSalt(Salt(factory, merchant)))

-----------------------------------------------------------------------------
(* refundable() and withRefund() on one RouteConfig *)

CreateXMainnetId == <<"createx-mainnet">>
CreateXBaseId == <<"createx-base">>
CustomCreateXId == <<"createx-custom">>

\* STANDARD_CREATEX_ADDRESSES[network]
STANDARD_CREATEX_ADDRESSES(network) ==
    CASE network = "eip155:1" -> Addr(CreateXMainnetId, "checksum")
      [] network \in {"eip155:8453", "eip155:84532"} -> Addr(CreateXBaseId, "checksum")
      [] OTHER -> Undefined

\* a payTo that is a function (DynamicPayTo), not a string
DynamicPayTo == [id |-> <<"function">>, form |-> "function"]

IsString(payTo) == payTo # DynamicPayTo

\* option.extra: undefined, or an object that may hold the marker, a merchant
\* payout address and another key
NoExtra == [present |-> FALSE, marker |-> "absent", other |-> FALSE,
            merchantPayout |-> Undefined]

Extras == {NoExtra, [present |-> TRUE, marker |-> "other", other |-> TRUE,
                     merchantPayout |-> Undefined]}

\* the payment options tried; network "" is a missing network
PaymentOptions ==
    [payTo : {Addr(MerchantId, "lower"), Addr(OtherId, "checksum"), DynamicPayTo, Invalid},
     network : {"eip155:84532", "eip155:1", "eip155:137", ""},
     extra : Extras]

\* config.extensions.refund: absent, or a declared refund extension
NoRefundExtension == [present |-> FALSE, factoryAddress |-> Undefined,
                      merchantPayouts |-> <<>>]

\* the route configurations tried: accepts is one option or an array of options
RouteConfigs ==
    [isArray : {FALSE}, accepts : [1..1 -> PaymentOptions],
     refund : {NoRefundExtension}]
    \cup
    UNION { [isArray : {TRUE}, accepts : [1..n -> PaymentOptions],
             refund : {NoRefundExtension}] : n \in 0..MaxOptions }

\* lines 400-409
isRefundableOption(option) ==
    option.extra.present /\ option.extra.marker = "true"

\* lines 87-104: a copy of the option whose extra holds the marker
refundable(option) ==
    [option EXCEPT !.extra = [@ EXCEPT !.present = TRUE, !.marker = "true"]]

\* lines 187-202: the CreateX address, or Undefined where the function throws
getCreateXAddress(network, providedAddress) ==
    IF Truthy(providedAddress) THEN providedAddress
    ELSE STANDARD_CREATEX_ADDRESSES(network)

\* lines 32-65: the refund extension's info
declareRefundExtension(factoryAddress, merchantPayouts) ==
    [present |-> TRUE, factoryAddress |-> factoryAddress,
     merchantPayouts |-> merchantPayouts]

\* the map built from the first option alone
merchantPayoutsMapFirstOnly(accepts, n, factoryAddress, createxAddress) ==
    IF n = 0 \/ ~isRefundableOption(accepts[1]) \/ ~IsString(accepts[1].payTo)
    THEN <<>>
    ELSE LET key == ToLowerCase(computeRelayAddress(createxAddress, factoryAddress,
                                                    accepts[1].payTo))
         IN  [k \in {key} |-> accepts[1].payTo]

\* lines 235-256: proxyAddress.toLowerCase() -> merchantPayout over the refundable
\* options with a string payTo; a later option overwrites an earlier equal key
RECURSIVE merchantPayoutsMap(_, _, _, _)
merchantPayoutsMap(accepts, n, factoryAddress, createxAddress) ==
    IF n = 0 THEN <<>>
    ELSE LET rest   == merchantPayoutsMap(accepts, n - 1, factoryAddress, createxAddress)
             option == accepts[n]
         IN  IF isRefundableOption(option) /\ IsString(option.payTo)
             THEN LET key == ToLowerCase(computeRelayAddress(createxAddress,
                                            factoryAddress, option.payTo))
                  IN  [k \in DOMAIN rest \cup {key} |->
                          IF k = key THEN option.payTo ELSE rest[k]]
             ELSE rest

\* the processed option with payTo left as the merchant's address
processPaymentOptionKeepPayTo(option, factoryAddress, createxAddress) ==
    [option EXCEPT !.extra = [@ EXCEPT !.present = TRUE, !.marker = "absent"]]

\* the processed option with the merchant's address stored in its extra
processPaymentOptionStoresPayout(option, factoryAddress, createxAddress) ==
    IF isRefundableOption(option)
    THEN [option EXCEPT
            !.payTo = computeRelayAddress(createxAddress, factoryAddress, option.payTo),
            !.extra = [@ EXCEPT !.present = TRUE, !.marker = "absent",
                                !.merchantPayout = option.payTo]]
    ELSE [option EXCEPT !.extra = [@ EXCEPT !.present = TRUE]]

\* lines 294-334: the processed copy of an option that does not throw
processPaymentOption(option, factoryAddress, createxAddress) ==
    IF isRefundableOption(option)
    THEN [option EXCEPT
            !.payTo = computeRelayAddress(createxAddress, factoryAddress, option.payTo),
            !.extra = [@ EXCEPT !.present = TRUE, !.marker = "absent"]]
    ELSE [option EXCEPT !.extra = [@ EXCEPT !.present = TRUE]]

\* lines 300-313: processPaymentOption throws for this option
processPaymentOptionThrows(option, factoryAddress, createxAddress) ==
    /\ isRefundableOption(option)
    /\ \/ ~IsString(option.payTo)
       \/ computeRelayAddressThrows(createxAddress, factoryAddress, option.payTo)

NoConfig == [isArray |-> TRUE, accepts |-> <<>>, refund |-> NoRefundExtension]

Threw(error) == [ok |-> FALSE, error |-> error, config |-> NoConfig]

\* lines 212-284
processRouteConfig(config, factoryAddress, createxAddress) ==
    LET n        == Len(config.accepts)
        network  == IF n = 0 THEN "" ELSE config.accepts[1].network
        resolved == getCreateXAddress(network, createxAddress)
        hasRefundable == \E k \in 1..n : isRefundableOption(config.accepts[k])
    IN  IF network = "" THEN Threw("NetworkMissing")
        ELSE IF ~Truthy(resolved) THEN Threw("NoCreateXAddress")
        ELSE IF \E k \in 1..n :
                    /\ isRefundableOption(config.accepts[k])
                    /\ IsString(config.accepts[k].payTo)
                    /\ computeRelayAddressThrows(resolved, factoryAddress,
                                                 config.accepts[k].payTo)
             THEN Threw("InvalidAddress")
        ELSE IF \E k \in 1..n :
                    processPaymentOptionThrows(config.accepts[k], factoryAddress, resolved)
             THEN Threw("DynamicPayTo")
        ELSE LET map == merchantPayoutsMap(config.accepts, n, factoryAddress, resolved)
             IN  [ok |-> TRUE, error |-> "",
                  config |->
                    [isArray |-> config.isArray,
                     accepts |-> [k \in 1..n |->
                         processPaymentOption(config.accepts[k], factoryAddress, resolved)],
                     refund |-> IF hasRefundable /\ DOMAIN map # {}
                                THEN declareRefundExtension(factoryAddress, map)
                                ELSE config.refund]]

\* lines 156-176, for a single RouteConfig
withRefund(routes, factoryAddress, createxAddress) ==
    processRouteConfig(routes, factoryAddress, createxAddress)

(* The objects behind a route.  Every JavaScript object is a cell of the    *)
(* heap, a reference is the index of its cell and 0 is undefined; a spread   *)
(* or a literal allocates a new cell, an assignment rewrites an existing one.*)

UndefinedCell == [kind |-> "undefined"]

\* the new reference after an allocation
Alloc(heap, cell) == Append(heap, cell)

\* the caller's objects for a route configuration: per option its extra and
\* the option, then the accepts array, the extensions object and the config
BuildHeap(config) ==
    LET n == Len(config.accepts)
    IN  [r \in 1..(2 * n + 3) |->
            IF r <= 2 * n /\ r % 2 = 1
            THEN LET extra == config.accepts[(r + 1) \div 2].extra
                 IN  IF extra.present
                     THEN [kind |-> "extra", marker |-> extra.marker,
                           other |-> extra.other,
                           merchantPayout |-> extra.merchantPayout]
                     ELSE UndefinedCell
            ELSE IF r <= 2 * n
            THEN LET option == config.accepts[r \div 2]
                 IN  [kind |-> "option", payTo |-> option.payTo,
                      network |-> option.network,
                      extra |-> IF option.extra.present THEN r - 1 ELSE 0]
            ELSE IF r = 2 * n + 1
            THEN IF config.isArray
                 THEN [kind |-> "array", items |-> [k \in 1..n |-> 2 * k]]
                 ELSE UndefinedCell
            ELSE IF r = 2 * n + 2
            THEN [kind |-> "extensions", refund |-> config.refund]
            ELSE [kind |-> "config", isArray |-> config.isArray,
                  accepts |-> IF config.isArray THEN 2 * n + 1 ELSE 2,
                  extensions |-> 2 * n + 2]]

\* the option object at reference o, read through its extra
DerefOption(heap, o) ==
    [payTo |-> heap[o].payTo, network |-> heap[o].network,
     extra |-> IF heap[o].extra = 0 THEN NoExtra
               ELSE [present |-> TRUE, marker |-> heap[heap[o].extra].marker,
                     other |-> heap[heap[o].extra].other,
                     merchantPayout |-> heap[heap[o].extra].merchantPayout]]

\* the references of the options config.accepts holds
OptionRefs(heap, c) ==
    IF heap[c].isArray THEN heap[heap[c].accepts].items ELSE <<heap[c].accepts>>

\* the route configuration at reference c, read through all its references
DerefConfig(heap, c) ==
    LET refs == OptionRefs(heap, c)
    IN  [isArray |-> heap[c].isArray,
         accepts |-> [k \in 1..Len(refs) |-> DerefOption(heap, refs[k])],
         refund |-> heap[heap[c].extensions].refund]

\* { ...option.extra }: a new object with the keys of option.extra, if any
SpreadExtra(heap, o) ==
    IF heap[o].extra = 0
    THEN [kind |-> "extra", marker |-> "absent", other |-> FALSE,
          merchantPayout |-> Undefined]
    ELSE heap[heap[o].extra]

\* refundable() with clonedOption.extra left as the caller's extra object
refundableShallowClone(heap, o) ==
    LET h1   == IF heap[o].extra = 0 THEN Alloc(heap, SpreadExtra(heap, o)) ELSE heap
        e    == IF heap[o].extra = 0 THEN Len(h1) ELSE heap[o].extra
        h2   == Alloc(h1, [heap[o] EXCEPT !.extra = e])
        h3   == [h2 EXCEPT ![e].marker = "true"]
    IN  [heap |-> h3, ref |-> Len(h2)]

\* lines 87-104 on the heap: the heap after the call and the reference returned
refundableOnHeap(heap, o) ==
    LET h1   == Alloc(heap, SpreadExtra(heap, o))
        h2   == Alloc(h1, [heap[o] EXCEPT !.extra = Len(h1)])
        clonedOption == Len(h2)
        h3   == [h2 EXCEPT ![h2[clonedOption].extra].marker = "true"]
    IN  [heap |-> h3, ref |-> clonedOption]

\* lines 400-409 on the heap
isRefundableOptionOnHeap(heap, o) ==
    heap[o].extra # 0 /\ heap[heap[o].extra].marker = "true"

\* lines 294-334 on the heap, for an option that does not throw
processPaymentOptionOnHeap(heap, o, factoryAddress, createxAddress) ==
    LET h1 == Alloc(heap, SpreadExtra(heap, o))
    IN  IF isRefundableOptionOnHeap(heap, o)
        THEN LET proxyAddress == computeRelayAddress(createxAddress, factoryAddress,
                                                     heap[o].payTo)
                 h2 == Alloc(h1, [heap[o] EXCEPT !.payTo = proxyAddress,
                                                 !.extra = Len(h1)])
                 processedOption == Len(h2)
                 h3 == [h2 EXCEPT ![h2[processedOption].extra].marker = "absent"]
             IN  [heap |-> h3, ref |-> processedOption]
        ELSE LET h2 == Alloc(h1, [heap[o] EXCEPT !.extra = Len(h1)])
             IN  [heap |-> h2, ref |-> Len(h2)]

\* config.accepts.map(option => processPaymentOption(...)) over the first n
\* options: the heap after the calls and the references returned, in order
RECURSIVE mapProcessPaymentOption(_, _, _, _, _)
mapProcessPaymentOption(heap, refs, n, factoryAddress, createxAddress) ==
    IF n = 0 THEN [heap |-> heap, refs |-> <<>>]
    ELSE CHOOSE after \in
            { [heap |-> this.heap, refs |-> Append(before.refs, this.ref)] :
                <<before, this>> \in
                    { <<b, processPaymentOptionOnHeap(b.heap, refs[n],
                                                     factoryAddress, createxAddress)>> :
                        b \in { mapProcessPaymentOption(heap, refs, n - 1,
                                                        factoryAddress, createxAddress) } } } :
            TRUE

\* lines 258-284 on the heap, for a route that does not throw: the heap after
\* the call and the reference of processedConfig
processRouteConfigOnHeap(heap, c, factoryAddress, createxAddress) ==
    LET refs     == OptionRefs(heap, c)
        values   == DerefConfig(heap, c).accepts
        resolved == getCreateXAddress(values[1].network, createxAddress)
        hasRefundable == \E k \in 1..Len(refs) : isRefundableOptionOnHeap(heap, refs[k])
        map      == merchantPayoutsMap(values, Len(values), factoryAddress, resolved)
        mapped   == mapProcessPaymentOption(heap, refs, Len(refs), factoryAddress, resolved)
        h1       == IF heap[c].isArray
                    THEN Alloc(mapped.heap, [kind |-> "array", items |-> mapped.refs])
                    ELSE mapped.heap
        accepts  == IF heap[c].isArray THEN Len(h1) ELSE mapped.refs[1]
        h2       == Alloc(h1, heap[heap[c].extensions])
        h3       == Alloc(h2, [heap[c] EXCEPT !.accepts = accepts, !.extensions = Len(h2)])
        processedConfig == Len(h3)
        h4       == Alloc(h3, [h3[h3[processedConfig].extensions] EXCEPT
                                 !.refund = declareRefundExtension(factoryAddress, map)])
        h5       == [h4 EXCEPT ![processedConfig].extensions = Len(h4)]
    IN  IF hasRefundable /\ DOMAIN map # {}
        THEN [heap |-> h5, ref |-> processedConfig]
        ELSE [heap |-> h3, ref |-> processedConfig]

\* the state of a route: the caller's configuration, by value and as objects
RouteState(config, factoryAddress, createxAddress) ==
    [phase |-> "building", config |-> config,
     factoryAddress |-> factoryAddress, createxAddress |-> createxAddress,
     result |-> Threw(""),
     heap |-> BuildHeap(config), configRef |-> 2 * Len(config.accepts) + 3,
     resultRef |-> 0]

InitRouteSpec ==
    /\ \E config \in RouteConfigs :
       \E factoryAddress \in {Addr(FactoryId, "lower"), Invalid} :
       \E createxAddress \in {Undefined, Addr(CustomCreateXId, "lower")} :
            route = RouteState(config, factoryAddress, createxAddress)
    /\ inp = [ext |-> "none"]
    /\ pc = "route"
    /\ loc = InitLoc
    /\ env = InitEnv
    /\ attempt = 0
    /\ delays = InitDelays
    /\ writes = <<>>
    /\ faults = InitFaults
    /\ out = NoOutcome
    /\ rr = InitRR
    /\ fac = InitFac
    /\ cls = InitCls

RouteFrame ==
    UNCHANGED <<inp, pc, loc, env, attempt, delays, writes, faults, out, rr, fac, cls>>

\* the merchant marks option k of the route with refundable() and builds the
\* route configuration again around the option returned; options are marked
\* in the order of the accepts list
CallRefundable ==
    /\ route.phase = "building"
    /\ \E k \in DOMAIN route.config.accepts :
        /\ \A j \in DOMAIN route.config.accepts :
                j >= k => ~isRefundableOption(route.config.accepts[j])
        /\ LET c      == route.configRef
               marked == refundableOnHeap(route.heap, OptionRefs(route.heap, c)[k])
               h1     == IF route.heap[c].isArray
                         THEN Alloc(marked.heap,
                                [route.heap[route.heap[c].accepts] EXCEPT
                                    !.items[k] = marked.ref])
                         ELSE marked.heap
               h2     == Alloc(h1, [route.heap[c] EXCEPT
                                !.accepts = IF route.heap[c].isArray
                                            THEN Len(h1) ELSE marked.ref])
           IN  route' = [route EXCEPT !.config.accepts[k] = refundable(@),
                                      !.heap = h2,
                                      !.configRef = Len(h2)]
    /\ RouteFrame

\* the merchant calls withRefund(routes, factoryAddress, createxAddress); a call
\* that throws leaves behind only new objects that nothing refers to
CallWithRefund ==
    /\ route.phase = "building"
    /\ LET result == withRefund(route.config, route.factoryAddress,
                                route.createxAddress)
           onHeap == processRouteConfigOnHeap(route.heap, route.configRef,
                        route.factoryAddress, route.createxAddress)
       IN  route' = [route EXCEPT
                       !.phase = "done",
                       !.result = result,
                       !.heap = IF result.ok THEN onHeap.heap ELSE @,
                       !.resultRef = IF result.ok THEN onHeap.ref ELSE 0]
    /\ RouteFrame

NextRoute == CallRefundable \/ CallWithRefund

SpecRoute == InitRouteSpec /\ [][NextRoute]_vars

-----------------------------------------------------------------------------
(* withRefund followed by the lookup of settleWithRefundHelper: the route    *)
(* is processed by the merchant's server, and the facilitator looks the      *)
(* payTo of a processed option up in the merchantPayouts of the extension    *)

\* the merchant's address in two spellings, and another merchant
RoundTripOptions ==
    [payTo : {Addr(MerchantId, "lower"), Addr(MerchantId, "checksum"),
              Addr(OtherId, "checksum")},
     network : {"eip155:84532"},
     extra : Extras]

RoundTripConfigs ==
    [isArray : {FALSE}, accepts : [1..1 -> RoundTripOptions],
     refund : {NoRefundExtension}]
    \cup
    UNION { [isArray : {TRUE}, accepts : [1..n -> RoundTripOptions],
             refund : {NoRefundExtension}] : n \in 1..MaxOptions }

NoLookup == [option |-> 0, proxyAddress |-> Undefined, merchantPayout |-> Undefined]

InitRoundTrip ==
    /\ \E config \in RoundTripConfigs :
       \E factoryAddress \in {Addr(FactoryId, "lower"), Addr(FactoryId, "checksum")} :
       \E createxAddress \in {Undefined, Addr(CustomCreateXId, "lower")} :
            route = RouteState(config, factoryAddress, createxAddress)
                        @@ [lookup |-> NoLookup]
    /\ inp = [ext |-> "none"]
    /\ pc = "route"
    /\ loc = InitLoc
    /\ env = InitEnv
    /\ attempt = 0
    /\ delays = InitDelays
    /\ writes = <<>>
    /\ faults = InitFaults
    /\ out = NoOutcome
    /\ rr = InitRR
    /\ fac = InitFac
    /\ cls = InitCls

\* settleWithRefundHelper, lines 751-752 and 788-789, for a payment made to
\* option k of the processed route: proxyAddress = getAddress(payTo), then
\* merchantPayouts[proxyAddress] || merchantPayouts[proxyAddressLower]
SettleLooksUp ==
    /\ route.phase = "done"
    /\ route.result.ok
    /\ route.result.config.refund.present
    /\ \E k \in DOMAIN route.result.config.accepts :
        LET proxyAddress == GetAddress(route.result.config.accepts[k].payTo)
        IN  route' = [route EXCEPT
                !.phase = "lookedUp",
                !.lookup = [option |-> k, proxyAddress |-> proxyAddress,
                            merchantPayout |->
                                LookupPayout(route.result.config.refund.merchantPayouts,
                                             proxyAddress)]]
    /\ RouteFrame

NextRoundTrip == CallRefundable \/ CallWithRefund \/ SettleLooksUp

SpecRoundTrip == InitRoundTrip /\ [][NextRoundTrip]_vars

-----------------------------------------------------------------------------
(* computeRelayAddress on its own: the same three addresses, written in any  *)
(* letter case, are passed in again while the chain moves on                 *)

\* the address a written with its letters in another case
Recase(a, form) == IF IsHexAddress(a) THEN Addr(a.id, form) ELSE a

\* one call of computeRelayAddress: its arguments, the block it was made at,
\* whether it threw and the address it returned
ComputeCall(createxAddress, factoryAddress, merchantPayout, block) ==
    LET threw == computeRelayAddressThrows(createxAddress, factoryAddress, merchantPayout)
    IN  [createxAddress |-> createxAddress, factoryAddress |-> factoryAddress,
         merchantPayout |-> merchantPayout, block |-> block, threw |-> threw,
         result |-> IF threw THEN Invalid
                    ELSE computeRelayAddress(createxAddress, factoryAddress,
                                             merchantPayout)]

InitCompute ==
    /\ route \in [phase : {"compute"},
                  createxAddress : {Addr(CreateXBaseId, "lower"),
                                    Addr(CustomCreateXId, "lower")},
                  factoryAddress : {Addr(FactoryId, "lower")},
                  merchantPayout : {Addr(MerchantId, "lower"), Addr(OtherId, "lower"),
                                    Invalid},
                  calls : {<<>>},
                  block : {0}]
    /\ inp = [ext |-> "none"]
    /\ pc = "compute"
    /\ loc = InitLoc
    /\ env = InitEnv
    /\ attempt = 0
    /\ delays = InitDelays
    /\ writes = <<>>
    /\ faults = InitFaults
    /\ out = NoOutcome
    /\ rr = InitRR
    /\ fac = InitFac
    /\ cls = InitCls

\* computeRelayAddress is called with the three addresses in some letter case
CallComputeRelayAddress ==
    /\ Len(route.calls) < MaxCalls
    /\ \E fc \in Forms, ff \in Forms, fm \in Forms :
        route' = [route EXCEPT !.calls = Append(@,
                    ComputeCall(Recase(route.createxAddress, fc),
                                Recase(route.factoryAddress, ff),
                                Recase(route.merchantPayout, fm),
                                route.block))]
    /\ RouteFrame

\* a block is mined: nonces, balances and deployed code on the chain may change
ChainAdvances ==
    /\ route.block < MaxBlock
    /\ route' = [route EXCEPT !.block = @ + 1]
    /\ RouteFrame

NextCompute == CallComputeRelayAddress \/ ChainAdvances

SpecCompute == InitCompute /\ [][NextCompute]_vars

-----------------------------------------------------------------------------
(* The example facilitator: POST /settle and the onBeforeSettle hook around  *)
(* settleWithRefundHelper.  Requests are handled concurrently; each await is *)
(* a point where another request may run.                                    *)

Nonces == {"nonce1", "nonce2"}

\* a request body whose payload has no authorization.nonce
NoNonce == "none"

NoResponse == [success |-> FALSE, transaction |-> 0, errorReason |-> "none"]

\* the SettleResponse settleWithRefundHelper returns for transaction tx
HelperSuccess(tx) == [success |-> TRUE, transaction |-> tx, errorReason |-> ""]

\* the SettleResponse of the handler for an aborted settlement
AbortedResponse(reason) == [success |-> FALSE, transaction |-> 0, errorReason |-> reason]

\* the outcome of the hook with a helper error treated like a null result
onBeforeSettleFallsBack(outcome) ==
    IF outcome = "success" THEN "handled_by_refund_helper" ELSE "continue"

\* lines 101-137: the abort reason the hook returns, or "continue" for undefined
onBeforeSettle(outcome) ==
    CASE outcome = "success" -> "handled_by_refund_helper"
      [] outcome = "throws" -> "refund_helper_failed"
      [] OTHER -> "continue"

\* lines 110-120: refundSettlementResults after the hook
CacheAfterHook(cache, nonce, outcome, result) ==
    IF outcome = "success" /\ nonce # NoNonce
    THEN [n \in DOMAIN cache \cup {nonce} |-> IF n = nonce THEN result ELSE cache[n]]
    ELSE cache

\* lines 221-246: the response of the handler to an aborted settlement
ResponseToAbort(cache, nonce, reason) ==
    IF reason = "handled_by_refund_helper" /\ nonce # NoNonce /\ nonce \in DOMAIN cache
    THEN cache[nonce]
    ELSE AbortedResponse(reason)

\* refundSettlementResults after the handler, with the stored result kept
CacheAfterAbortKeepsResult(cache, nonce, reason) == cache

\* lines 229-236: refundSettlementResults after the handler
CacheAfterAbort(cache, nonce, reason) ==
    IF reason = "handled_by_refund_helper" /\ nonce # NoNonce /\ nonce \in DOMAIN cache
    THEN [n \in DOMAIN cache \ {nonce} |-> cache[n]]
    ELSE cache

NewRequest == [stage |-> "idle", nonce |-> NoNonce, retryOf |-> 0, outcome |-> "none",
               result |-> NoResponse, hook |-> "none", normal |-> FALSE,
               response |-> NoResponse]

InitFacilitator ==
    /\ cls = InitCls
    /\ fac = [phase |-> "serving", used |-> {}, cache |-> <<>>, txs |-> 0,
              reqs |-> [r \in 1..MaxRequests |-> NewRequest]]
    /\ inp = [ext |-> "none"]
    /\ pc = "facilitator"
    /\ loc = InitLoc
    /\ env = InitEnv
    /\ attempt = 0
    /\ delays = InitDelays
    /\ writes = <<>>
    /\ faults = InitFaults
    /\ out = NoOutcome
    /\ rr = InitRR
    /\ route = InitRoute

FacFrame ==
    UNCHANGED <<inp, pc, loc, env, attempt, delays, writes, faults, out, rr, route, cls>>

\* an earlier request for the same nonce that was answered with a success
EarlierSuccess(nonce) ==
    { q \in 1..MaxRequests :
        /\ fac.reqs[q].stage = "responded"
        /\ fac.reqs[q].nonce = nonce
        /\ fac.reqs[q].response.success }

\* lines 204-218: POST /settle arrives and facilitator.settle() is called
ReceiveSettle(r) ==
    /\ fac.reqs[r].stage = "idle"
    /\ \A q \in 1..(r - 1) : fac.reqs[q].stage # "idle"
    /\ \E nonce \in Nonces \cup {NoNonce} :
        fac' = [fac EXCEPT !.reqs[r].stage = "hook",
                           !.reqs[r].nonce = nonce,
                           !.reqs[r].retryOf =
                                IF nonce # NoNonce /\ EarlierSuccess(nonce) # {}
                                THEN CHOOSE q \in EarlierSuccess(nonce) : TRUE
                                ELSE 0]
    /\ FacFrame

\* lines 103-107: the hook awaits settleWithRefundHelper, which returns null,
\* throws, or executes the deposit; the token accepts an authorization nonce
\* only once, so the deposit succeeds only for a nonce not yet used
HelperSettles(r) ==
    /\ fac.reqs[r].stage = "hook"
    /\ \/ \E outcome \in {"null", "throws"} :
            fac' = [fac EXCEPT !.reqs[r].stage = "helperDone",
                               !.reqs[r].outcome = outcome]
       \/ /\ fac.reqs[r].nonce # NoNonce
          /\ fac.reqs[r].nonce \notin fac.used
          /\ fac' = [fac EXCEPT !.reqs[r].stage = "helperDone",
                                !.reqs[r].outcome = "success",
                                !.reqs[r].result = HelperSuccess(fac.txs + 1),
                                !.txs = @ + 1,
                                !.used = @ \cup {fac.reqs[r].nonce}]
    /\ FacFrame

\* lines 109-137: the rest of the hook, after the helper
HookReturns(r) ==
    /\ fac.reqs[r].stage = "helperDone"
    /\ fac' = [fac EXCEPT
                 !.reqs[r].stage = "hookDone",
                 !.reqs[r].hook = onBeforeSettle(fac.reqs[r].outcome),
                 !.cache = CacheAfterHook(@, fac.reqs[r].nonce, fac.reqs[r].outcome,
                                          fac.reqs[r].result)]
    /\ FacFrame

\* lines 213-218: the hook returned undefined, facilitator.settle() settles the
\* payment with the registered scheme and the handler sends its response
NormalSettlement(r) ==
    /\ fac.reqs[r].stage = "hookDone"
    /\ fac.reqs[r].hook = "continue"
    /\ \/ /\ fac.reqs[r].nonce # NoNonce
          /\ fac.reqs[r].nonce \notin fac.used
          /\ fac' = [fac EXCEPT !.reqs[r].stage = "responded",
                                !.reqs[r].normal = TRUE,
                                !.reqs[r].response = HelperSuccess(fac.txs + 1),
                                !.txs = @ + 1,
                                !.used = @ \cup {fac.reqs[r].nonce}]
       \/ fac' = [fac EXCEPT !.reqs[r].stage = "responded",
                             !.reqs[r].normal = TRUE,
                             !.reqs[r].response = AbortedResponse("settle_failed")]
    /\ FacFrame

\* lines 219-246: the hook aborted, facilitator.settle() throws "Settlement
\* aborted: <reason>" and the handler answers from its catch block
RespondToAbort(r) ==
    /\ fac.reqs[r].stage = "hookDone"
    /\ fac.reqs[r].hook # "continue"
    /\ fac' = [fac EXCEPT
                 !.reqs[r].stage = "responded",
                 !.reqs[r].response =
                    ResponseToAbort(fac.cache, fac.reqs[r].nonce, fac.reqs[r].hook),
                 !.cache = CacheAfterAbort(@, fac.reqs[r].nonce, fac.reqs[r].hook)]
    /\ FacFrame

NextFacilitator ==
    \E r \in 1..MaxRequests :
        \/ ReceiveSettle(r)
        \/ HelperSettles(r)
        \/ HookReturns(r)
        \/ NormalSettlement(r)
        \/ RespondToAbort(r)

SpecFacilitator == InitFacilitator /\ [][NextFacilitator]_vars

-----------------------------------------------------------------------------
(* settleWithRefundHelper, lines 1116-1187: the message of the error raised  *)
(* after the last executeDeposit attempt.  A string is the sequence of its   *)
(* byte values; a hex string is the sequence of the bytes it spells, without *)
(* its "0x", and NotHex stands for two characters that are not hex digits.   *)

NotHex == 255 + 1

WordBytes == 32

\* "execution reverted"
ExecutionRevertedText == <<101, 120, 101, 99, 117, 116, 105, 111, 110, 32, 114, 101, 118, 101, 114, 116, 101, 100>>

\* "Paused"
PausedText == <<80, 97, 117, 115, 101, 100>>

\* "boom"
BoomText == <<98, 111, 111, 109>>

\* "ERC20: transfer amount exceeds balance", 38 bytes
LongText == <<69, 82, 67, 50, 48, 58, 32, 116, 114, 97, 110, 115, 102, 101, 114, 32, 97, 109, 111, 117, 110, 116, 32, 101, 120, 99, 101, 101, 100, 115, 32, 98, 97, 108, 97, 110, 99, 101>>

\* the reason strings a contract reverts with
Texts == {<<>>, PausedText, ExecutionRevertedText, LongText,
          SubSeq(LongText, 1, WordBytes - 1), SubSeq(LongText, 1, WordBytes),
          SubSeq(LongText, 1, WordBytes + 1)}

\* 0x08c379a0, the selector of Error(string)
Selector == <<8, 195, 121, 160>>

\* a 32-byte big-endian word
Word(n) ==
    [k \in 1..WordBytes |->
        IF k = WordBytes THEN n % 256
        ELSE IF k = WordBytes - 1 THEN (n \div 256) % 256
        ELSE 0]

Zeros(n) == [k \in 1..n |-> 0]

\* what a contract returns for revert(s): selector, offset, length, the bytes
\* of s padded with zeros to a multiple of 32 bytes
AbiEncodeError(s) ==
    Selector \o Word(WordBytes) \o Word(Len(s)) \o s
             \o Zeros((WordBytes - (Len(s) % WordBytes)) % WordBytes)

\* String.prototype.slice(from, to) of a hex string, counted in bytes after "0x"
Slice(bs, from, to) == SubSeq(bs, Min(from, Len(bs)) + 1, Min(to, Len(bs)))

\* the hex digits a parser accepts: everything before the first non-hex pair
HexPrefix(bs) ==
    LET bad == {k \in DOMAIN bs : bs[k] = NotHex}
    IN  IF bad = {} THEN bs
        ELSE SubSeq(bs, 1, (CHOOSE k \in bad : \A j \in bad : k <= j) - 1)

\* the number spelled by hex digits; values above cap are as good as cap to a
\* caller that uses the number as the end of a slice of cap bytes
HexValue(bs, acc, cap) ==
    LET value[k \in 0..Len(bs)] ==
            IF k = 0 THEN acc ELSE Min(value[k - 1] * 256 + bs[k], cap)
    IN  value[Len(bs)]

\* cause.data.slice(138, 202) starts 68 bytes after "0x"
LengthAt == (138 - 2) \div 2

\* cause.data.slice(202, ...) starts 100 bytes after "0x"
StringAt == (202 - 2) \div 2

IsNotNul(b) == b # 0

\* lines 1141-1146: lengthHex, parseInt (NaN for no digits, which as the end of
\* a slice counts as 0), stringHex, Buffer.from(.., "hex"), replace(/\0/g, "")
DecodeReason(data) ==
    LET lengthHex == HexPrefix(Slice(data, LengthAt, StringAt))
        end == IF lengthHex = <<>> THEN 0
               ELSE StringAt + HexValue(lengthHex, 0, Len(data))
    IN  SelectSeq(HexPrefix(Slice(data, StringAt, end)), IsNotNul)

\* cause.data.startsWith("0x08c379a0")
StartsWithSelector(data) == Len(data) >= Len(Selector) /\ SubSeq(data, 1, Len(Selector)) = Selector

\* a value that is not a string, and a string
NotAString == [isString |-> FALSE, text |-> <<>>]

Str(t) == [isString |-> TRUE, text |-> t]

\* if (revertReason ...): a non-empty string
TruthyString(v) == v.isString /\ v.text # <<>>

\* cause.data: missing, not a string, or a hex string
NoData == [kind |-> "absent", bytes |-> <<>>]

HexData(bs) == [kind |-> "string", bytes |-> bs]

\* the data fields tried: well-formed payloads, "0x", truncated payloads, another
\* selector, and characters that are not hex digits
Datas ==
    {NoData, [kind |-> "notString", bytes |-> <<>>], HexData(<<>>)}
    \cup {HexData(AbiEncodeError(t)) : t \in Texts}
    \cup {HexData(SubSeq(AbiEncodeError(LongText), 1, n)) : n \in {4, 50, 110}}
    \cup {HexData(<<0, 0, 0, 0>> \o Tail(Tail(Tail(Tail(AbiEncodeError(LongText)))))),
          HexData(Selector \o <<NotHex, NotHex>>),
          HexData(Selector \o Word(WordBytes) \o Word(Len(LongText)) \o Word(1)
                           \o <<80, NotHex, 80>>)}

NoCause == [present |-> FALSE, reason |-> NotAString, data |-> NoData]

\* error.cause: missing, or an object with reason and data
Causes ==
    {NoCause} \cup
    [present : {TRUE},
     reason : {NotAString, Str(<<>>), Str(ExecutionRevertedText), Str(PausedText)},
     data : Datas]

\* error.shortMessage: whether it is a string, whether it includes "reverted",
\* and match[1].trim() of /reverted(?:[: ]+)?(.+)/i
NoShortMessage == [isString |-> FALSE, reverted |-> FALSE, rest |-> <<>>]

ShortMessages ==
    {NoShortMessage,
     [isString |-> TRUE, reverted |-> FALSE, rest |-> <<>>],
     [isString |-> TRUE, reverted |-> TRUE, rest |-> <<>>],
     [isString |-> TRUE, reverted |-> TRUE, rest |-> PausedText]}

\* lastError: a value that is not an object (a thrown string, undefined), or an
\* object with message, cause and shortMessage
Failures ==
    [isObject : {FALSE}, message : {BoomText, <<>>}, cause : {NoCause},
     shortMessage : {NoShortMessage}]
    \cup
    [isObject : {TRUE}, message : {BoomText}, cause : Causes,
     shortMessage : ShortMessages]

\* lines 1131-1133: cause.reason when it is a string
ReasonField(cause) ==
    IF cause.present /\ cause.reason.isString THEN cause.reason ELSE NotAString

\* lines 1135-1154: a decoded cause.data replaces revertReason
DataReason(cause, revertReason) ==
    IF /\ cause.present /\ cause.data.kind = "string"
       /\ StartsWithSelector(cause.data.bytes)
       /\ DecodeReason(cause.data.bytes) # <<>>
    THEN Str(DecodeReason(cause.data.bytes))
    ELSE revertReason

\* lines 1158-1166: shortMessage is used when no reason has been found
ShortMessageReason(shortMessage, revertReason) ==
    IF /\ shortMessage.isString
       /\ ~TruthyString(revertReason)
       /\ shortMessage.reverted
       /\ shortMessage.rest # <<>>
    THEN Str(shortMessage.rest)
    ELSE revertReason

\* lines 1122-1167: revertReason
RevertReason(error) ==
    IF ~error.isObject THEN NotAString
    ELSE ShortMessageReason(error.shortMessage,
                            DataReason(error.cause, ReasonField(error.cause)))

\* the message built from whatever reason was found, the placeholder included
BuildMessageAnyReason(revertReason, errorMessage) ==
    [kind |-> "Contract reverted", reason |-> revertReason.text, original |-> <<>>]

\* lines 1170-1185: "Contract reverted: <reason>", or the diagnostic that names
\* the pre-checks passed and ends with the original message
BuildMessage(revertReason, errorMessage) ==
    IF TruthyString(revertReason) /\ revertReason.text # ExecutionRevertedText
    THEN [kind |-> "Contract reverted", reason |-> revertReason.text, original |-> <<>>]
    ELSE [kind |-> "All pre-checks passed", reason |-> <<>>, original |-> errorMessage]

\* lines 1116-1187: throw new Error(`Failed to execute proxy.executeDeposit: ...`)
ClassifiedError(error) ==
    [name |-> "Failed to execute proxy.executeDeposit",
     message |-> BuildMessage(RevertReason(error), error.message)]

InitClassify ==
    /\ cls \in [phase : {"exhausted"}, lastError : Failures, thrown : {<<>>}]
    /\ inp = [ext |-> "none"]
    /\ pc = "classification"
    /\ loc = InitLoc
    /\ env = InitEnv
    /\ attempt = 0
    /\ delays = InitDelays
    /\ writes = <<>>
    /\ faults = InitFaults
    /\ out = NoOutcome
    /\ rr = InitRR
    /\ route = InitRoute
    /\ fac = InitFac

\* lines 1116-1187 run without an await: one step from the end of the loop to
\* the throw
Classify ==
    /\ cls.phase = "exhausted"
    /\ cls' = [cls EXCEPT !.phase = "raised",
                          !.thrown = <<ClassifiedError(cls.lastError)>>]
    /\ UNCHANGED <<inp, pc, loc, env, attempt, delays, writes, faults, out, rr, route, fac>>

NextClassify == Classify

SpecClassify == InitClassify /\ [][NextClassify]_vars

-----------------------------------------------------------------------------
(* Properties of settleWithRefundHelper *)

Done == pc = "done"

Submitted(fn) == \E k \in DOMAIN writes : writes[k] = fn

\* the payload carries a usable refund extension
HasExtension == inp.ext = "info" /\ IsAddress(inp.factoryAddress)

\* the merchantPayout the extension gives for the proxy address of payTo
MappedPayout ==
    LET ck == Addr(inp.payTo.id, "checksum")
        lo == Addr(inp.payTo.id, "lower")
        m  == inp.merchantPayouts
    IN  IF ck \in DOMAIN m THEN m[ck]
        ELSE IF lo \in DOMAIN m THEN m[lo]
        ELSE Undefined

\* authorization.to and payTo are the same 20 bytes
SameTarget == inp.payload.to.id = inp.payTo.id

\* the signature, unwrapped, is 65 bytes long
SignatureIs65 == inp.payload.signature.bytes = 65

\* C1: once the run has passed every earlier step (extension, factory code, relay
\* resolved, merchant registered, payload with authorization and signature), an
\* authorization.to that normalizes to another address than payTo makes the run
\* end in the authorization-binding error, and executeDeposit is never submitted.
C1_BindingMismatchRaises ==
    ( /\ env.registered = "yes"
      /\ inp.payload.hasAuth /\ inp.payload.hasSig
      /\ IsHexAddress(inp.payload.to)
      /\ ~SameTarget )
    => /\ pc \in {"checkBinding", "done"}
       /\ Done => out = Fatal("AuthorizationBindingMismatch", "none")
       /\ ~Submitted("executeDeposit")

C1_Witness ==
    /\ Done
    /\ out.err = "AuthorizationBindingMismatch"
    /\ env.registered = "yes"
    /\ ~SameTarget

\* C2: no writeContract (deployRelay or executeDeposit) is submitted before the
\* check authorization.to == proxyAddress has been made and has passed.
C2_NoWriteBeforeBinding ==
    writes # <<>> => (Truthy(loc.authTo) /\ loc.authTo = loc.proxyAddress)

\* C3: factory has code, proxy not deployed, merchantPayouts maps the proxy to a
\* merchant and the escrow reports it unregistered: the run raises the
\* merchant-not-registered error and has made no write call.
C3_UnregisteredNoWrite ==
    ( /\ env.factoryCode = "code"
      /\ env.relayCode = "empty"
      /\ Truthy(MappedPayout) /\ MappedPayout # zeroAddress
      /\ env.registered = "no" )
    => /\ Done
       /\ out = Fatal("MerchantNotRegistered", "none")
       /\ writes = <<>>

\* C4 as stated: null is returned only when no usable extension is present or the
\* unwrapped signature is not a 65-byte signature.
C4_NullOnlyTwoCases ==
    (Done /\ out.kind = "null")
    => \/ ~HasExtension
       \/ (inp.payload.hasSig /\ ~SignatureIs65)

\* C4 amended: null is returned only when no usable extension is present, the
\* deployed proxy's MERCHANT_PAYOUT/ESCROW read threw, the merchantPayout (read
\* from the proxy, or looked up in merchantPayouts) is missing or the zero
\* address, the payload lacks its authorization or signature, or the unwrapped
\* signature is not 65 bytes; every other finished run is Success or an error.
C4_NullCases ==
    /\ (Done /\ out.kind = "null")
        => \/ ~HasExtension
           \/ env.relayCode = "code" /\ ~Truthy(loc.escrowAddress)
           \/ env.relayCode = "code" /\ loc.merchantPayout = zeroAddress
           \/ env.relayCode = "empty"
                /\ (~Truthy(MappedPayout) \/ MappedPayout = zeroAddress)
           \/ ~inp.payload.hasAuth \/ ~inp.payload.hasSig
           \/ ~SignatureIs65
    /\ Done => out.kind \in {"null", "success", "fatal"}

C4_Witness ==
    /\ Done /\ out.kind = "null"
    /\ HasExtension
    /\ inp.payload.hasAuth /\ inp.payload.hasSig /\ SignatureIs65
    /\ env.relayCode = "empty"
    /\ ~Truthy(MappedPayout)

\* C5: a payload without a refund extension (extensions, the refund key, info or
\* factoryAddress missing, or factoryAddress not an address) makes the run return
\* null without raising and without calling the signer.
C5_NoExtensionReturnsNull ==
    ( \/ inp.ext \in {"noExtensions", "noRefundKey", "noInfo"}
      \/ inp.factoryAddress \in {Undefined, Invalid, Addr(FactoryId, "mixed")} )
    => /\ pc \in {"extract", "done"}
       /\ Done => out = NullResult
       /\ writes = <<>> /\ faults.n = 0 /\ env = InitEnv

C5_Witness ==
    /\ Done /\ out = NullResult
    /\ inp.ext = "info" /\ inp.factoryAddress = Addr(FactoryId, "mixed")
    /\ inp.payTo = Invalid


\* the payload and requirements of a payment made for this proxy: a usable
\* extension, a payTo address, an authorization for that address, a 65-byte
\* signature
PaymentWellFormed ==
    /\ HasExtension
    /\ IsHexAddress(inp.payTo)
    /\ inp.payload.hasAuth /\ inp.payload.hasSig
    /\ IsHexAddress(inp.payload.to) /\ SameTarget
    /\ SignatureIs65

\* merchantPayouts maps the proxy address to a merchant
PayoutMapped == Truthy(MappedPayout) /\ MappedPayout # zeroAddress

\* every answer the chain has given so far is the good one: the factory has code
\* and computes the proxy address, transactions succeed, the deployed code shows
\* up, the merchant is registered, the proxy's token and escrow are consistent
AnswersGood ==
    /\ env.factoryCode \in {"unread", "code"}
    /\ Truthy(loc.expectedAddress) => loc.expectedAddress.id = inp.payTo.id
    /\ env.deployReceipt \in {"unread", "success"}
    /\ env.deployedCode \in {"unread", "code"}
    /\ env.registered \in {"unread", "yes"}
    /\ Truthy(loc.proxyToken) => loc.proxyToken.id = inp.asset.id
    /\ Truthy(loc.proxyEscrow) => loc.proxyEscrow.id = loc.escrowAddress.id
    /\ env.reverted = 0

\* C6: happy path.  Factory with code, proxy not yet deployed, merchantPayouts maps
\* the proxy to a registered merchant, authorization.to is the proxy, token and
\* escrow consistent, 65-byte signature, and no call fails: the run submits
\* deployRelay, then executeDeposit, and returns Success with the hash of that
\* executeDeposit transaction, network = requirements.network and
\* payer = authorization.from.  In every run, Success carries the hash of the last
\* write, which is an executeDeposit.
C6_HappyPath ==
    /\ ( /\ Done
         /\ PaymentWellFormed /\ PayoutMapped
         /\ env.relayCode = "empty"
         /\ AnswersGood
         /\ faults.n = 0 )
       => /\ out.kind = "success"
          /\ writes = <<"deployRelay", "executeDeposit">>
    /\ out.kind = "success"
       => /\ out.tx = Len(writes)
          /\ out.tx \in DOMAIN writes /\ writes[out.tx] = "executeDeposit"
          /\ out.network = inp.network
          /\ out.payer = inp.from

C6_Witness ==
    /\ Done /\ out.kind = "success"
    /\ env.relayCode = "empty"
    /\ writes = <<"deployRelay", "executeDeposit">>
    /\ out.tx = 2
    /\ faults.n = 0

\* C7: when the proxy's TOKEN() is another address than the requirement's asset,
\* the run ends in the proxy-consistency error and never submits executeDeposit.
C7_TokenMismatchRaises ==
    (Truthy(loc.proxyToken) /\ loc.proxyToken.id # inp.asset.id)
    => /\ Done
       /\ out = Fatal("TokenMismatch", "ProxyImmutables")
       /\ ~Submitted("executeDeposit")

C7_Witness ==
    /\ Done
    /\ Truthy(loc.proxyToken) /\ loc.proxyToken.id # inp.asset.id
    /\ out.err = "TokenMismatch"
    /\ writes = <<"deployRelay">>

\* the getCode probes: called without readContractWithRetry
ProbeSites == {"factoryCode", "relayCode", "pollCode"}

\* everything but the failed calls is good, whether the proxy was deployed or not
OtherwiseGood ==
    /\ PaymentWellFormed
    /\ AnswersGood
    /\ env.relayCode = "empty" => PayoutMapped
    /\ env.relayCode = "code" =>
          (Truthy(loc.merchantPayout) => loc.merchantPayout # zeroAddress)

\* C8 as stated: one read-only query (getCode probe or readContract call) answers
\* 429 to its first two attempts and then succeeds, everything else succeeds:
\* the run returns Success after exactly 1s + 2s of backoff.  (A query the run
\* does not attempt again after its first failure has failed once.)
C8_AnyReadRecovers ==
    ( /\ Done
      /\ OtherwiseGood
      /\ faults.only429
      /\ Cardinality(faults.sites) = 1
      /\ \/ faults.n = 2 /\ faults.sites \subseteq ReadSites
         \/ faults.n = 1 /\ faults.sites \subseteq ProbeSites )
    => /\ out.kind = "success"
       /\ delays.read = 3000

\* C8 amended: one readContract call made through readContractWithRetry fails
\* twice with a 429-shaped error and succeeds on its third attempt, everything
\* else succeeds: the run returns Success after exactly 1s + 2s of backoff.  A
\* getCode probe is not retried: when one fails the run ends in an error.
C8_ContractReadRecovers ==
    /\ ( /\ Done
         /\ OtherwiseGood
         /\ faults.only429
         /\ Cardinality(faults.sites) = 1
         /\ faults.n = 2 /\ faults.sites \subseteq ReadSites )
       => /\ out.kind = "success"
          /\ delays.read = 3000
    /\ (faults.sites \cap ProbeSites # {})
       => /\ Done
          /\ out.kind = "fatal" /\ out.err = "RpcError"

C8_Witness ==
    /\ Done /\ out.kind = "success"
    /\ faults.only429 /\ faults.n = 2
    /\ faults.sites = {"readRegistered"}
    /\ delays.read = 3000

-----------------------------------------------------------------------------
(* Properties of readContractWithRetry *)

\* C9: for every maxRetries >= 0 and every pattern of failures, the wrapped read
\* is invoked at most maxRetries + 1 times and the backoff delays sum to at most
\* 16 s x maxRetries.
C9_RetryBound ==
    /\ rr.calls <= rr.maxRetries + 1
    /\ rr.delay <= 16000 * rr.maxRetries

C9_Witness ==
    /\ rr.result = "thrown"
    /\ rr.maxRetries = 6
    /\ rr.calls = 7
    /\ rr.delay = 47000

\* C18: if the authorizationState(from, nonce) read succeeds and reports that
\* the nonce is already used, settleWithRefundHelper raises a fatal nonce-reused
\* error and never submits an executeDeposit write.
C18_NonceReusedRaises ==
    env.nonceUsed = "used" =>
        /\ ~Submitted("executeDeposit")
        /\ Done => out.kind = "fatal" /\ out.err = "NonceReused"

\* C19: executeDeposit is never sent to an address that differs from the
\* factory's relay address for the merchantPayout used in that run, whether
\* the proxy was already deployed or deployed on demand.
C19_DepositOnlyToFactoryRelay ==
    Submitted("executeDeposit") =>
        ToLowerCase(env.factoryRelay) = ToLowerCase(loc.proxyAddress)

\* C20: a settle attempt whose deployRelay reverts because a concurrent attempt
\* has already deployed the proxy re-probes the code at the proxy address and
\* continues the protocol instead of ending in a fatal error.
C20_RevertedDeployReprobes ==
    env.revertCause = "alreadyDeployed" /\ Done =>
        /\ env.deployedCode # "unread"
        /\ ~(out.kind = "fatal" /\ out.err = "DeploymentReverted")

\* the executeDeposit writes submitted so far in this run
DepositWrites == Cardinality({k \in DOMAIN writes : writes[k] = "executeDeposit"})

\* C21 as stated: within one settle call the executeDeposit write is attempted
\* at most 5 times in total.
C21_AtMostFiveAttempts == DepositWrites <= 5

\* C21: within one settle call the executeDeposit write is attempted at most 6
\* times, a first attempt and up to 5 retries, and the delay before the k-th
\* retry is k seconds: after n retries the run has slept 1s + 2s + ... + ns.
C21_AtMostSixAttempts ==
    /\ DepositWrites <= DepositMaxRetries + 1
    /\ loc.attempt <= DepositMaxRetries
    /\ DepositWrites \in {loc.attempt, loc.attempt + 1}
    /\ 2 * delays.deposit = 1000 * loc.attempt * (loc.attempt + 1)

\* a run that ended after six executeDeposit writes and 15 seconds of delays
C21_Witness ==
    /\ Done
    /\ DepositWrites = 6
    /\ delays.deposit = 15000
    /\ out.kind = "fatal"

\* C22: if a contract read made through readContractWithRetry, other than the
\* advisory nonce check, is still rate-limited after its final attempt, the run
\* ends by raising a fatal error: it neither returns null nor continues.
C22_ExhaustedReadIsFatal ==
    faults.exhausted \ {"readAuthorizationState"} # {} =>
        Done /\ out.kind = "fatal"

\* the call sites that read the state of the proxy
ProxyReadSites == {"readMerchantPayout", "readEscrow", "readEscrowDeployed",
                   "readToken", "readEscrowAgain"}

\* C23: within one run, every read of proxy state (MERCHANT_PAYOUT, TOKEN,
\* ESCROW) is issued only after a getCode probe of the proxy address has
\* returned non-empty code in that run.
C23_ProxyReadAfterCodeSeen ==
    pc \in ProxyReadSites =>
        env.relayCode = "code" \/ env.deployedCode = "code"

\* the run is about to read TOKEN() of a proxy it deployed on demand and saw
\* code for only at its third poll
C23_Witness ==
    /\ pc = "readToken"
    /\ env.relayCode = "empty"
    /\ env.deployedCode = "code"
    /\ loc.i = 2

\* C24: an executeDeposit write is submitted only if, earlier in the same run,
\* registeredMerchants(merchantPayout) returned true, the proxy's TOKEN()
\* equalled the requirement's asset and the proxy's ESCROW() equalled the
\* escrow resolved during relay resolution.
C24_DepositAfterChecks ==
    Submitted("executeDeposit") =>
        /\ env.registered = "yes"
        /\ IsHexAddress(loc.proxyToken)
        /\ loc.proxyToken.id = inp.asset.id
        /\ IsHexAddress(loc.proxyEscrow)
        /\ IsHexAddress(loc.escrowAddress)
        /\ loc.proxyEscrow.id = loc.escrowAddress.id

\* executeDeposit was submitted to a proxy deployed on demand, whose escrow
\* was read after the deployment
C24_Witness ==
    /\ Submitted("executeDeposit")
    /\ Submitted("deployRelay")
    /\ env.registered = "yes"
    /\ loc.proxyEscrow.form # loc.escrowAddress.form

\* C25: when the proxy is not deployed and factory.getRelayAddress(merchantPayout)
\* differs from the expected proxy address, settle raises a fatal
\* address-mismatch error and no write is submitted.
C25_MismatchIsFatalWithoutWrite ==
    /\ env.relayCode = "empty"
    /\ IsHexAddress(loc.expectedAddress)
    /\ loc.expectedAddress.id # loc.proxyAddress.id
    => /\ Done
       /\ out.kind = "fatal"
       /\ out.err = "AddressMismatch"
       /\ writes = <<>>

\* the factory answered with the relay of another merchant
C25_Witness ==
    /\ Done
    /\ env.relayCode = "empty"
    /\ loc.expectedAddress = Addr(OtherId, "checksum")
    /\ loc.proxyAddress = Addr(ProxyId, "checksum")
    /\ out.err = "AddressMismatch"

\* C26: after a deploy receipt with status success the code probe of the proxy
\* is made at most 5 times, the waits before probes 2 to 5 are 1s, 2s, 3s and
\* 4s, polling stops at the first probe returning non-empty code, and if all 5
\* probes return empty code settle raises a fatal error and never submits
\* executeDeposit.  loc.i counts the probes that returned empty code.
C26_PollingBounded ==
    /\ loc.i <= 5
    /\ pc = "pollCode" => loc.i < 5 /\ env.deployReceipt = "success"
    /\ pc = "pollCode" => 2 * delays.poll = 1000 * loc.i * (loc.i - 1)
    /\ env.deployedCode = "code" =>
          /\ pc # "pollCode"
          /\ 2 * delays.poll = 1000 * loc.i * (loc.i + 1)
    /\ loc.i = 5 =>
          /\ delays.poll = 1000 + 2000 + 3000 + 4000
          /\ env.deployedCode = "empty"
          /\ pc = "readRelayAddressAgain" \/ (Done /\ out.kind = "fatal")
          /\ ~Submitted("executeDeposit")

\* five probes found no code and settle has thrown
C26_Witness ==
    /\ Done
    /\ loc.i = 5
    /\ delays.poll = 10000
    /\ out.err = "DeploymentNotObserved"

\* C27: whenever proxy code is still absent after the post-deploy polling, the
\* error that settle raises carries the factory-computed address, the expected
\* proxy address and the deploy transaction hash, whatever the chain calls made
\* after polling do.
C27_NotObservedErrorHasDetails ==
    Done /\ loc.i = PollAttempts =>
        /\ out.kind = "fatal"
        /\ Len(out.detail) = 3
        /\ out.detail[1] = loc.proxyAddress
        /\ out.detail[2] = loc.deployTx
        /\ out.detail[3] \in FactoryRelays

\* C28: when the proxy is not deployed and merchantPayouts has no entry for the
\* proxy address, neither under the checksummed address nor under its lowercase
\* form, or the entry is the zero address, settle returns null without raising
\* and without submitting any write.
C28_NoPayoutIsNotApplicable ==
    LET exact == Lookup(inp.merchantPayouts, loc.proxyAddress)
        lower == Lookup(inp.merchantPayouts, ToLowerCase(loc.proxyAddress))
    IN  /\ env.relayCode = "empty"
        /\ pc # "lookupPayout"
        /\ \/ exact = Undefined /\ lower = Undefined
           \/ exact = zeroAddress
           \/ exact = Undefined /\ lower = zeroAddress
        => /\ Done
           /\ out = NullResult
           /\ writes = <<>>

\* the map holds the zero address for the undeployed proxy
C28_Witness ==
    /\ Done
    /\ env.relayCode = "empty"
    /\ Lookup(inp.merchantPayouts, ToLowerCase(loc.proxyAddress)) = zeroAddress
    /\ out = NullResult

\* no layer of the cause chain has status 429 or mentions a rate limit
NoRateLimitSign(e) ==
    \A k \in DOMAIN e :
        /\ e[k].status # 429
        /\ ~MentionsRateLimit(e[k].message)
        /\ ~MentionsRateLimit(e[k].details)

\* C30: when the wrapped read fails with an error that is not rate-limited (no
\* 429 status and no rate-limit message anywhere in its cause chain),
\* readContractWithRetry propagates that same error at once: no attempt and no
\* wait follows it, so a first attempt failing this way is the only attempt and
\* no delay is waited; when every attempt is rate-limited the error propagated
\* is that of the last attempt.
C30_NonRateLimitedPropagatesAtOnce ==
    /\ rr.lastError # <<>> /\ NoRateLimitSign(rr.lastError) =>
          /\ rr.result = "thrown"
          /\ rr.thrown = rr.lastError
          /\ rr.calls = rr.attempt + 1
          /\ rr.attempt = 0 => rr.calls = 1 /\ rr.delay = 0
    /\ rr.result = "thrown" =>
          /\ rr.thrown = rr.lastError
          /\ rr.thrown # <<>>
          /\ ~NoRateLimitSign(rr.thrown) /\ isRateLimitError(rr.thrown) =>
                rr.calls = rr.maxRetries + 1

\* the only attempt failed with a plain server error
C30_Witness ==
    /\ rr.result = "thrown"
    /\ rr.maxRetries = DefaultMaxRetries
    /\ rr.calls = 1
    /\ rr.delay = 0
    /\ rr.thrown = <<[status |-> 500, message |-> "boom", details |-> ""]>>

\* C29: when the proxy is already deployed, the outcome of settle and every
\* chain call it makes are independent of the supplied merchantPayouts map.
\* Every step of a run that has not found the proxy undeployed is also a step
\* of the run called with any other map: from the same state, given the same
\* answers of the chain, it makes the same call and reaches the same state, so
\* the two runs go through the same calls, arguments and outcome.
C29_IndependentOfPayoutMap ==
    [][env.relayCode # "empty" =>
          \A m \in PayoutMaps : NextFor([inp EXCEPT !.merchantPayouts = m])]_vars

\* a settlement through a deployed proxy for which the map names the zero address
C29_Witness ==
    /\ Done
    /\ env.relayCode = "code"
    /\ Lookup(inp.merchantPayouts, loc.proxyAddress) = zeroAddress
    /\ out.kind = "success"
    /\ Submitted("executeDeposit")

\* the error raised by the classification
Raised == cls.phase = "raised"

\* C31: when the deposit retries are exhausted and the failure's cause carries
\* a structured revert reason that is not the placeholder "execution reverted",
\* the raised error reports exactly that reason; an ABI-encoded Error(string)
\* in the data field is decoded and used only when no such reason is present.
C31_StructuredReasonVerbatim ==
    LET cause == cls.lastError.cause
    IN  /\ Raised
        /\ cls.lastError.isObject
        /\ cause.present
        /\ TruthyString(cause.reason)
        /\ cause.reason.text # ExecutionRevertedText
        => cls.thrown[1].message =
              [kind |-> "Contract reverted", reason |-> cause.reason.text,
               original |-> <<>>]

\* C32: for every well-formed ABI-encoded Error(string) payload found in the
\* failure's data field with no structured reason present, the decoded reason
\* equals the original string, strings shorter than 32 bytes included.
C32_DecodedReasonIsOriginal ==
    LET error == cls.lastError
    IN  \A t \in Texts \ {<<>>, ExecutionRevertedText} :
            /\ Raised
            /\ error.isObject
            /\ error.cause.present
            /\ ~error.cause.reason.isString
            /\ ~error.shortMessage.isString
            /\ error.cause.data = HexData(AbiEncodeError(t))
            => /\ cls.thrown[1].message.kind = "Contract reverted"
               /\ cls.thrown[1].message.reason = t

\* C33: after the deposit retries are exhausted exactly one error is raised,
\* with a single message that is the extracted reason or the diagnostic naming
\* the pre-checks passed, for every shape of the failure value: non-object, no
\* cause, malformed or truncated data.  The classification never raises
\* another error and never returns.
C33_AlwaysOneDescriptiveError ==
    /\ cls.phase \in {"exhausted", "raised"}
    /\ cls.phase = "exhausted" => cls.thrown = <<>>
    /\ Raised =>
          /\ Len(cls.thrown) = 1
          /\ cls.thrown[1].name = "Failed to execute proxy.executeDeposit"
          /\ \/ /\ cls.thrown[1].message.kind = "Contract reverted"
                /\ cls.thrown[1].message.reason # <<>>
                /\ cls.thrown[1].message.reason # ExecutionRevertedText
             \/ /\ cls.thrown[1].message.kind = "All pre-checks passed"
                /\ cls.thrown[1].message.original = cls.lastError.message

\* a failure whose data field is a truncated payload ends in the diagnostic
C33_Witness ==
    /\ Raised
    /\ cls.lastError.cause.data = HexData(SubSeq(AbiEncodeError(LongText), 1, 50))
    /\ ~cls.lastError.cause.reason.isString
    /\ ~cls.lastError.shortMessage.isString
    /\ cls.thrown[1].message.kind = "All pre-checks passed"

\* the run has passed the comparison of the proxy's ESCROW(), the last step
\* before the signature is parsed
ReachedSignature ==
    /\ IsHexAddress(loc.proxyEscrow)
    /\ IsHexAddress(loc.escrowAddress)
    /\ loc.proxyEscrow.id = loc.escrowAddress.id
    /\ pc # "readEscrowAgain"

\* C34: if the signature, after unwrapping any ERC-6492 envelope, is not
\* exactly 65 bytes long, the run returns null instead of raising and submits
\* no executeDeposit write.
C34_NonEcdsaIsNotApplicable ==
    /\ ~SignatureIs65 => ~Submitted("executeDeposit")
    /\ ReachedSignature /\ pc # "decodeSignature" /\ ~SignatureIs65 =>
          Done /\ out = NullResult

\* a run that passed every check and stopped at a 64-byte signature inside an
\* ERC-6492 envelope
C34_Witness ==
    /\ Done
    /\ ReachedSignature
    /\ inp.payload.signature = [wrapped |-> TRUE, bytes |-> 64]
    /\ out = NullResult

\* C35: whenever the run returns null it has submitted no state-changing call,
\* so a caller that falls back to the normal settlement starts from a chain
\* state this run did not change.
C35_NullMeansNoWrite ==
    Done /\ out = NullResult => writes = <<>>

\* C36: a further executeDeposit write is submitted only after the previous
\* attempt was observed to have failed; none is submitted while an earlier
\* executeDeposit transaction is unresolved, as it is after the wait for its
\* receipt has thrown.
C36_NoWriteWhileUnresolved ==
    [][pc = "writeDeposit" /\ Len(writes') > Len(writes)
          => "depositReceipt" \notin faults.sites]_vars

\* the merchantPayout of the run is being, or has been, passed to deployRelay
\* or to registeredMerchants
PayoutInUse ==
    \/ pc \in {"writeDeploy", "readRegistered"}
    \/ Submitted("deployRelay")
    \/ env.registered # "unread"

\* C37: the merchantPayout passed to the registration check and to deployRelay
\* is either the value read from the deployed proxy's MERCHANT_PAYOUT(), or a
\* value of the merchantPayouts map for which factory.getRelayAddress was found
\* equal to the proxy address earlier in the run.
C37_PayoutConfirmedBeforeUse ==
    PayoutInUse =>
        \/ /\ env.relayCode = "code"
           /\ loc.expectedAddress = Undefined
           /\ writes \in {<<>>} \cup Seq({"executeDeposit"})
        \/ /\ env.relayCode = "empty"
           /\ loc.merchantPayout = LookupPayout(inp.merchantPayouts, loc.proxyAddress)
           /\ IsHexAddress(loc.expectedAddress)
           /\ loc.expectedAddress.id = loc.proxyAddress.id

\* a payout taken from the map under the lowercase key has been confirmed by
\* the factory and passed to deployRelay
C37_Witness ==
    /\ Submitted("deployRelay")
    /\ env.relayCode = "empty"
    /\ loc.merchantPayout = Lookup(inp.merchantPayouts, ToLowerCase(loc.proxyAddress))
    /\ loc.expectedAddress = Addr(ProxyId, "checksum")
    /\ env.registered = "yes"

\* the position of the run, counted from the end of the function
PcRank ==
    CASE pc = "extract" -> 22
      [] pc = "factoryCode" -> 21
      [] pc = "relayCode" -> 20
      [] pc \in {"readMerchantPayout", "lookupPayout"} -> 19
      [] pc \in {"readEscrow", "readRelayAddress"} -> 18
      [] pc = "writeDeploy" -> 17
      [] pc = "deployReceipt" -> 16
      [] pc = "pollCode" -> 15
      [] pc \in {"readRelayAddressAgain", "readEscrowDeployed"} -> 14
      [] pc = "readRegistered" -> 13
      [] pc = "checkBinding" -> 12
      [] pc = "readToken" -> 11
      [] pc = "readEscrowAgain" -> 10
      [] pc = "decodeSignature" -> 9
      [] pc = "readAuthorizationState" -> 8
      [] pc \in {"writeDeposit", "depositReceipt"} -> 7
      [] pc = "classify" -> 6
      [] OTHER -> 0

\* the calls the loop at the current position can still make
LoopRank ==
    IF pc \in ReadSites THEN DefaultMaxRetries + 1 - attempt
    ELSE IF pc = "pollCode" THEN PollAttempts - loc.i
    ELSE IF pc = "writeDeposit" THEN 2 * (DepositMaxRetries + 1 - loc.attempt)
    ELSE IF pc = "depositReceipt" THEN 2 * (DepositMaxRetries + 1 - loc.attempt) - 1
    ELSE 0

\* a bound on the steps, and so on the chain calls, the run can still make
Rank == PcRank * (2 * (DepositMaxRetries + 1) + 1) + LoopRank

\* C40: provided every chain call and every timer completes, each run ends
\* (success, null or an error raised) after a bounded number of chain calls,
\* for every pattern of failures, rate-limit errors, empty code and reverted
\* receipts: every step lowers Rank, which is never negative, and a run that
\* has not ended always has a next step.
C40_Terminates ==
    /\ [][Rank' < Rank]_vars
    /\ [](Rank >= 0)
    /\ [](Done \/ ENABLED Next)

\* a run that deployed the relay, saw its code at the fifth poll and ended
\* after six reverted executeDeposit transactions
C40_Witness ==
    /\ Done
    /\ Submitted("deployRelay")
    /\ loc.i = PollAttempts - 1
    /\ env.deployedCode = "code"
    /\ DepositWrites = DepositMaxRetries + 1
    /\ env.reverted = DepositMaxRetries + 1

-----------------------------------------------------------------------------
(* Properties of withRefund *)

\* the CreateX address withRefund resolved for the route
ResolvedCreateX ==
    getCreateXAddress(route.config.accepts[1].network, route.createxAddress)

\* withRefund was called and returned a processed route
Processed == route.phase = "done" /\ route.result.ok

\* C10: after withRefund, every option that was marked refundable has payTo
\* equal to computeRelayAddress(createxAddress, factoryAddress, original payTo),
\* and the key recorded for it in the refund extension's merchantPayouts is
\* that same address up to letter case, mapped to the option's merchant.
C10_PayToIsRelayAddress ==
    Processed =>
        \A k \in DOMAIN route.config.accepts :
            isRefundableOption(route.config.accepts[k]) =>
                LET original  == route.config.accepts[k].payTo
                    processed == route.result.config.accepts[k].payTo
                    refund    == route.result.config.refund
                IN  /\ processed = computeRelayAddress(ResolvedCreateX,
                                     route.factoryAddress, original)
                    /\ refund.present
                    /\ \E key \in DOMAIN refund.merchantPayouts :
                          /\ ToLowerCase(key) = ToLowerCase(processed)
                          /\ refund.merchantPayouts[key].id = original.id

\* a processed route with two refundable options of different merchants
C10_Witness ==
    /\ Processed
    /\ Len(route.config.accepts) = 2
    /\ isRefundableOption(route.config.accepts[1])
    /\ isRefundableOption(route.config.accepts[2])
    /\ route.config.accepts[1].payTo # route.config.accepts[2].payTo
    /\ route.createxAddress = Undefined
    /\ Cardinality(DOMAIN route.result.config.refund.merchantPayouts) = 2

\* the objects of the route agree with the route read by value
RouteHeapAgrees ==
    /\ DerefConfig(route.heap, route.configRef) = route.config
    /\ Processed => DerefConfig(route.heap, route.resultRef) = route.result.config

\* C11: refundable() and withRefund() never mutate their arguments: every
\* object that exists before a call (the option, its extra, the route config,
\* its accepts list, its extensions object) is the same after the call.
C11_ArgumentsNotMutated ==
    [][\A r \in DOMAIN route.heap : route'.heap[r] = route.heap[r]]_vars

\* withRefund processed a route whose first option was marked by refundable()
\* from an option that had an extra object; that object still has no marker
\* and the configuration passed in still reads as it did before the call
C11_Witness ==
    /\ Processed
    /\ Len(route.config.accepts) = 2
    /\ isRefundableOption(route.config.accepts[1])
    /\ route.heap[1].kind = "extra"
    /\ route.heap[1].marker = "other"
    /\ route.heap[2].payTo = route.config.accepts[1].payTo
    /\ route.result.config.accepts[1].payTo # route.config.accepts[1].payTo
    /\ RouteHeapAgrees

Eip155Networks == {"eip155:1", "eip155:8453", "eip155:84532", "eip155:137"}

\* C15: withRefund(routes, factoryAddress) called without a createxAddress does
\* not fail because of the network chosen, for options on any network written
\* as eip155:<chainId>.
C15_AnyEip155NetworkSucceeds ==
    /\ route.phase = "done"
    /\ route.createxAddress = Undefined
    /\ \A k \in DOMAIN route.config.accepts :
            route.config.accepts[k].network \in Eip155Networks
    => route.result.error # "NoCreateXAddress"

\* the facilitator has looked up the payTo of a processed refundable option
LookedUpRefundable ==
    /\ route.phase = "lookedUp"
    /\ isRefundableOption(route.config.accepts[route.lookup.option])

\* C38 as stated: for every refundable option with merchant payout m, the
\* settle-side lookup by the option's new payTo yields m.
C38_LookupYieldsPayout ==
    LookedUpRefundable =>
        route.lookup.merchantPayout = route.config.accepts[route.lookup.option].payTo

\* C38: for every refundable option with merchant payout m, the settle-side
\* lookup by the option's new payTo yields the address m, in the spelling of
\* the last refundable option of the route that names this address: m itself
\* unless a later refundable option spells the same address in another case.
C38_LookupYieldsPayoutAddress ==
    LookedUpRefundable =>
        LET accepts == route.config.accepts
            m       == accepts[route.lookup.option].payTo
            same    == {j \in DOMAIN accepts :
                            /\ isRefundableOption(accepts[j])
                            /\ accepts[j].payTo.id = m.id}
            last    == CHOOSE j \in same : \A i \in same : i <= j
        IN  /\ IsHexAddress(route.lookup.merchantPayout)
            /\ GetAddress(route.lookup.merchantPayout) = GetAddress(m)
            /\ route.lookup.merchantPayout = accepts[last].payTo
            /\ (\A j \in same : accepts[j].payTo = m) => route.lookup.merchantPayout = m

\* the lookup for the second of two refundable options of different merchants,
\* found under the lowercase key
C38_Witness ==
    /\ LookedUpRefundable
    /\ route.lookup.option = 2
    /\ isRefundableOption(route.config.accepts[1])
    /\ route.config.accepts[1].payTo = Addr(OtherId, "checksum")
    /\ route.lookup.merchantPayout = Addr(MerchantId, "lower")
    /\ route.lookup.proxyAddress \notin DOMAIN route.result.config.refund.merchantPayouts

\* C39: in withRefund without an explicit createxAddress, each refundable
\* option's relay address is computed with the CreateX address of that
\* option's own network, also when the options of one route are on different
\* networks.
C39_CreateXOfOwnNetwork ==
    Processed /\ route.createxAddress = Undefined =>
        \A k \in DOMAIN route.config.accepts :
            isRefundableOption(route.config.accepts[k]) =>
                LET own == STANDARD_CREATEX_ADDRESSES(route.config.accepts[k].network)
                IN  /\ Truthy(own)
                    /\ route.result.config.accepts[k].payTo =
                          computeRelayAddress(own, route.factoryAddress,
                                              route.config.accepts[k].payTo)

-----------------------------------------------------------------------------
(* Properties of computeRelayAddress *)

\* the three arguments of a call
CallArgs(call) == <<call.createxAddress, call.factoryAddress, call.merchantPayout>>

\* the three arguments of a call with their letter case removed
CallArgsLower(call) ==
    <<ToLowerCase(call.createxAddress), ToLowerCase(call.factoryAddress),
      ToLowerCase(call.merchantPayout)>>

C13_CaseInsensitive ==
    \A i, j \in DOMAIN route.calls :
        /\ ~computeRelayAddressThrows(route.calls[i].createxAddress,
                route.calls[i].factoryAddress, route.calls[i].merchantPayout)
        /\ CallArgsLower(route.calls[i]) = CallArgsLower(route.calls[j])
        => /\ ~route.calls[j].threw
           /\ route.calls[i].result = route.calls[j].result

\* two calls whose three inputs all differ in letter case only, one of them
\* written in a case that is neither lowercase nor the checksum
C13_Witness ==
    /\ Len(route.calls) = 2
    /\ ~route.calls[1].threw
    /\ route.calls[1].createxAddress.form = "lower"
    /\ route.calls[2].createxAddress.form = "checksum"
    /\ route.calls[1].factoryAddress.form = "mixed"
    /\ route.calls[2].factoryAddress.form = "lower"
    /\ route.calls[1].merchantPayout.form = "checksum"
    /\ route.calls[2].merchantPayout.form = "mixed"

-----------------------------------------------------------------------------
(* Properties of the example facilitator *)

\* the hook of request r has returned
HookDone(r) == fac.reqs[r].stage \in {"hookDone", "responded"}

C17_RetryReceivesCachedResult ==
    \A r \in 1..MaxRequests :
        fac.reqs[r].stage = "responded" /\ fac.reqs[r].retryOf # 0 =>
            fac.reqs[r].response = fac.reqs[fac.reqs[r].retryOf].response

\* C17: the result cache hands a success result from the hook to the handler
\* of the same request and the entry is removed when it is returned; a later
\* request for the same nonce does not receive the earlier result.
C17_ResultHandedOverOnce ==
    \A r \in 1..MaxRequests :
        fac.reqs[r].stage = "responded" =>
            /\ fac.reqs[r].outcome = "success" =>
                  /\ fac.reqs[r].response = fac.reqs[r].result
                  /\ fac.reqs[r].nonce \notin DOMAIN fac.cache
            /\ fac.reqs[r].retryOf # 0 =>
                  /\ ~fac.reqs[r].response.success
                  /\ fac.reqs[r].response # fac.reqs[fac.reqs[r].retryOf].response

\* a request was answered from the cache and a later request for the same
\* nonce has been answered too
C17_Witness ==
    \E r \in 1..MaxRequests :
        /\ fac.reqs[r].stage = "responded"
        /\ fac.reqs[r].retryOf # 0
        /\ fac.reqs[fac.reqs[r].retryOf].outcome = "success"
        /\ fac.reqs[fac.reqs[r].retryOf].response.transaction = 1

=============================================================================
